---- MODULE Spec2Model ----
(***************************************************************************)
(* disktree: the concurrent subtree walker (Scanner.sumDir), the one-level *)
(* builder (Scanner.scanDir), and the incremental scan session with its    *)
(* consumer (model.startIncrementalScan / model.Update).                   *)
(*                                                                         *)
(* The specifications share one file-system model:                         *)
(*   SpecSum   one call of Scanner.sumDir on a tree drawn at Init          *)
(*   SpecSumFair  SpecSum with the goroutines scheduled fairly             *)
(*   SpecScan  one call of Scanner.scanDir on a tree drawn at Init         *)
(*   Spec      the Bubble Tea program: sessions, queue readers, Update,    *)
(*             on the runs listed in Runs                                  *)
(*   SpecQuit  Spec with the quit key, which cancels the context           *)
(*   SpecHanded  Spec with Update handed scanDoneMsgs of stale sessions    *)
(*   SpecLive  the program on LiveTree under fair scheduling               *)
(*   SpecFlush SpecLive with the debounce tick delivered                   *)
(*   SpecCached  the program on LiveTree, and scanDir called on its cache  *)
(*   SpecDenied  the program on a root whose directory cannot be listed    *)
(*   SpecTrash moveToTrash / restoreFromTrash with one failing call        *)
(*   SpecUndo  the program with the d, u and confirmation keys             *)
(*   SpecThree SpecUndo on a root with three files, without faults         *)
(*   SpecOverlay  one call of renderOverlay on texts drawn at Init         *)
(***************************************************************************)
EXTENDS Integers, Sequences, FiniteSets, TLC

\* ------------------------------------------------------------------------
\* Bounds of the model
\* ------------------------------------------------------------------------
\* number of entries below the root in the trees SpecSum and SpecScan draw
MaxEntries == 3
\* the -threads flag ranges over 0..MaxThreads (0 exercises maxvalue(1, threads))
MaxThreads == 2

\* ------------------------------------------------------------------------
\* File system: entry 0 is the root directory, entries 1..n are below it.
\* A tree is [parent, kind, unreadable]; os.ReadDir lists a directory's
\* entries sorted by name, modelled as increasing entry number.
\* ------------------------------------------------------------------------
Kinds == {"file", "dir", "symlink"}

Root == 0

\* fi.Size() of entry e (Lstat size for a symlink); distinct powers of two so
\* that a total identifies exactly which entries were counted
FileSize(e) == 2 ^ (e - 1)

TreesOver(n) ==
  { t \in [parent : [1..n -> 0..n], kind : [1..n -> Kinds], unreadable : SUBSET (0..n)] :
      /\ \A e \in 1..n : /\ t.parent[e] < e
                         /\ t.parent[e] = Root \/ t.kind[t.parent[e]] = "dir"
      /\ \A d \in t.unreadable : d = Root \/ t.kind[d] = "dir" }

EntriesOf(t) == DOMAIN t.kind

\* e.IsDir(): true only for a directory entry (a symlink entry is never IsDir)
IsDir(t, e) == e = Root \/ t.kind[e] = "dir"

\* e.Type()&fs.ModeSymlink != 0
IsSymlink(t, e) == e # Root /\ t.kind[e] = "symlink"

RECURSIVE SortedSeq(_)
SortedSeq(S) ==
  IF S = {} THEN << >>
  ELSE LET m == CHOOSE x \in S : \A y \in S : x <= y
       IN  << m >> \o SortedSeq(S \ {m})

\* os.ReadDir(p) of a readable directory
ReadDir(t, p) == SortedSeq({ e \in EntriesOf(t) : t.parent[e] = p })

\* maxvalue(a, b)
maxvalueSecond(a, b) == b
maxvalue(a, b) == IF a > b THEN a ELSE b

RECURSIVE SumSet(_)
SumSet(S) ==
  IF S = {} THEN 0
  ELSE LET x == CHOOSE y \in S : TRUE IN FileSize(x) + SumSet(S \ {x})

\* ------------------------------------------------------------------------
\* State
\* ------------------------------------------------------------------------
VARIABLES
  fsys,        \* the directory tree on disk
  threads,     \* Scanner.threads (the -threads flag)
  followSymlinks, \* Scanner.followSymlinks
  maxSess,     \* number of scan sessions the run may start
  chanCap,     \* capacity of the channel a scan session makes
  ctxDone,     \* the context passed to sumDir has been cancelled
  \* --- one call of Scanner.sumDir ---
  sumPc,       \* the calling goroutine: "idle", "walk", "wait", "done"
  walkPc,      \* per directory: the goroutine that walks it
  walkIdx,     \* per directory: position of its walk in the entries loop
  sem,         \* number of tokens in the sem channel
  wg,          \* the WaitGroup counter
  errs,        \* the errs channel (capacity 1): sequence of failed directories
  size, files, dirs,  \* the shared counters
  res,         \* the returned dirSum, or NoRes
  \* --- memory shared by scanDir, the sessions and the consumer ---
  heap,        \* the Node objects, by reference (a *Node is a key of heap)
  cache,       \* the global sync.Map: path -> *Node
  \* --- one call of Scanner.scanDir ---
  scanPc,      \* the calling goroutine: "idle", "loop", "wait", "done"
  scanIdx,     \* position in the entries loop
  scanChildren,\* the children slice (references)
  scanWorker,  \* per entry: the goroutine computing that directory's totals
  scanSem,     \* number of tokens in scanDir's sem channel
  scanWg,      \* scanDir's WaitGroup counter
  scanRet,     \* the returned *Node, or Nil
  \* --- the Bubble Tea program ---
  m,           \* the model struct (the fields the scan pipeline uses)
  sess,        \* the scan sessions started so far, in order; a token is an index
  readers,     \* per session channel: scanReaderCmd goroutines blocked on it
  inbox,       \* messages received by a reader, on their way to Update
  flushTimers, \* outstanding debounceCmd ticks
  forced,      \* outstanding forced-completion ticks
  tbl,         \* the rows last given to tbl.SetRows (the published snapshot)
  minElapsed,  \* time.Since(m.loadingStartTime) >= m.loadingMinDuration
  shown,       \* history: loadingMinDuration has passed since m.loading last became true
  quit,        \* tea.Quit was returned: Update handles nothing more
  last,        \* history: the message Update handled in the last step
  \* --- the trash: delete, undo and the files they move ---
  disk,        \* the entries that exist, by path: the scanned directory and the trash directory
  xdev,        \* the trash directory is on another device: os.Rename to or from it fails
  nsfx,        \* number of uniqueSuffix() values drawn so far
  now,         \* time.Now(), in ticks
  trash,       \* the model struct (the fields the delete and undo handlers use)
  tlast,       \* history: the last call of moveToTrash or restoreFromTrash
  \* --- one call of renderOverlay ---
  overlay      \* the arguments of the call and the string it returned

\* Record constructors list their fields in the order TLC keeps them (the
\* order in which the names are first mentioned in this module), so that a
\* record is never reordered by one worker while another one reads it.
sumVars == << sumPc, walkPc, walkIdx, sem, wg, errs, size, files, dirs, res >>
envVars == << fsys, threads, followSymlinks, ctxDone, maxSess, chanCap >>
memVars == << heap, cache >>
scanVars == << scanPc, scanIdx, scanChildren, scanWorker, scanSem, scanWg, scanRet >>
tuiVars == << m, sess, readers, inbox, flushTimers, forced, tbl, minElapsed, shown, quit, last >>
trashVars == << disk, xdev, nsfx, now, trash, tlast >>
pureVars == << overlay >>
vars == << envVars, sumVars, memVars, scanVars, tuiVars, trashVars, pureVars >>

\* what a step of sumDir leaves alone
sumFrame == << envVars, memVars, scanVars, tuiVars, trashVars, pureVars >>
\* what a step of scanDir leaves alone
scanFrame == << envVars, sumVars, pureVars, tuiVars, trashVars >>

NoRes == [size |-> -1, files |-> -1, dirs |-> -1, err |-> -1]
NoErr == -1

\* cap(sem) = maxvalue(1, s.threads)
SemCap == maxvalue(1, threads)

\* a send on the buffered sem channel proceeds only while it is not full
SemHasRoomNever(n, cap) == TRUE
SemHasRoom(n, cap) == n < cap

\* "skip symlinks unless asked": if e.Type()&fs.ModeSymlink != 0 && !follow { continue }
SkipEntryNever(t, e, follow) == FALSE
SkipEntry(t, e, follow) == IsSymlink(t, e) /\ ~follow

\* ------------------------------------------------------------------------
\* Node objects.  A reference is a pair << owner, slot >>: owner 0 is the
\* scanDir call, owner s >= 1 the s-th scan session; slot e >= 1 is the child
\* node made for entry e, slot 0 the node made for the target path itself.
\* ------------------------------------------------------------------------
Nil == << -1, -1 >>

\* &Node{Name: ..., Path: path}: every other field has its zero value
NewNode(path) ==
  [size |-> 0, files |-> 0, dirs |-> 0, err |-> NoErr,
   path |-> path, children |-> << >>, scanned |-> FALSE]

Alloc(h, ref, node) == [r \in DOMAIN h \cup {ref} |-> IF r = ref THEN node ELSE h[r]]

MemEmpty ==
  /\ heap = << >>
  /\ cache = << >>

\* cache.Store(path, ref)
CacheStore(c, path, ref) == [p \in DOMAIN c \cup {path} |-> IF p = path THEN ref ELSE c[p]]

NoEvent ==
  [ref |-> Nil, op |-> "none", key |-> "none", token |-> 0, stale |-> FALSE,
   phase |-> 0, seen |-> 0, published |-> FALSE, accepted |-> FALSE, busy |-> FALSE]

\* no call of moveToTrash or restoreFromTrash was made yet
NoCall == [op |-> "none"]

\* nothing was deleted: the delete and undo handlers are not exercised
\* renderOverlay was not called
NoOverlay == [pc |-> "none"]

OverlayIdle == overlay = NoOverlay

TrashIdle ==
  /\ disk = << >> /\ xdev = FALSE /\ nsfx = 0 /\ now = 0
  /\ trash = << >> /\ tlast = NoCall

\* the program is not running (SpecSum and SpecScan)
TuiIdle ==
  /\ m = << >> /\ sess = << >> /\ readers = << >> /\ inbox = {}
  /\ flushTimers = 0 /\ forced = {} /\ tbl = << >>
  /\ minElapsed = FALSE /\ shown = FALSE /\ quit = FALSE /\ last = NoEvent

\* Go collects the Nodes nothing refers to any more: those not reachable
\* from m.current, the cache, a message in flight or a running goroutine
Collect(h, roots) ==
  LET r1 == roots \cap DOMAIN h
      r2 == r1 \cup UNION { { h[r].children[i] : i \in 1..Len(h[r].children) } : r \in r1 }
  IN  [r \in r2 \cap DOMAIN h |-> h[r]]

\* the references held by the model, the cache, the messages in flight and
\* the locals (childs, n) of each session goroutine
RootsOf(mm, c, ss, ib, fo) ==
  {mm.current} \cup { c[q] : q \in DOMAIN c } \cup { x.ref : x \in ib \cup fo }
    \cup UNION { { ss[s].buf[i].ref : i \in 1..Len(ss[s].buf) }
                   \cup { ss[s].childs[i] : i \in 1..Len(ss[s].childs) }
                   \cup (IF ss[s].pc = "senddone" THEN { << s, 0 >> } ELSE {}) :
                 s \in 1..Len(ss) }

ScanIdle ==
  /\ scanPc = "idle"
  /\ scanIdx = 0
  /\ scanChildren = << >>
  /\ scanWorker = [e \in 1..MaxEntries |-> "none"]
  /\ scanSem = 0 /\ scanWg = 0
  /\ scanRet = Nil

\* ------------------------------------------------------------------------
\* Scanner.sumDir, one step per statement that touches shared state
\* ------------------------------------------------------------------------
SumIdle ==
  /\ sumPc = "idle"
  /\ walkPc = [d \in 0..MaxEntries |-> "none"]
  /\ walkIdx = [d \in 0..MaxEntries |-> 0]
  /\ sem = 0 /\ wg = 0 /\ errs = << >>
  /\ size = 0 /\ files = 0 /\ dirs = 0
  /\ res = NoRes

\* errs <- err with a default branch: dropped when the channel is full
TrySendErrNever(q, d) == q
TrySendErr(q, d) == IF Len(q) < 1 THEN Append(q, d) ELSE q

\* walk(path) is called by sumDir itself, without a slot
sumDirCall ==
  /\ sumPc = "idle"
  /\ sumPc' = "walk"
  /\ walkPc' = [walkPc EXCEPT ![Root] = "check"]
  /\ UNCHANGED << walkIdx, sem, wg, errs, size, files, dirs, res, sumFrame >>

\* what a walk does when it returns: the root's walk returns into sumDir,
\* a worker's walk returns into the goroutine that still holds a slot
Returned(d) == IF d = Root THEN "returned" ELSE "release"

\* top of walk(p): the ctx check, then os.ReadDir(p)
walkEnter(d) ==
  /\ walkPc[d] = "check"
  /\ IF ctxDone
       THEN /\ walkPc' = [walkPc EXCEPT ![d] = Returned(d)]
            /\ UNCHANGED << errs, walkIdx >>
       ELSE IF d \in fsys.unreadable
         THEN /\ errs' = TrySendErr(errs, d)
              /\ walkPc' = [walkPc EXCEPT ![d] = Returned(d)]
              /\ UNCHANGED walkIdx
         ELSE /\ walkPc' = [walkPc EXCEPT ![d] = "loop"]
              /\ walkIdx' = [walkIdx EXCEPT ![d] = 1]
              /\ UNCHANGED errs
  /\ UNCHANGED << sumPc, sem, wg, size, files, dirs, res, sumFrame >>

\* one iteration of "for _, e := range ents"
walkEntry(d) ==
  /\ walkPc[d] = "loop"
  /\ LET ents == ReadDir(fsys, d) IN
     IF walkIdx[d] > Len(ents)
       THEN /\ walkPc' = [walkPc EXCEPT ![d] = Returned(d)]
            /\ UNCHANGED << walkIdx, wg, size, files, dirs >>
       ELSE LET e == ents[walkIdx[d]] IN
            /\ walkIdx' = [walkIdx EXCEPT ![d] = @ + 1]
            /\ IF SkipEntry(fsys, e, followSymlinks)
                 THEN UNCHANGED << walkPc, wg, size, files, dirs >>
                 ELSE IF IsDir(fsys, e)
                   THEN /\ dirs' = dirs + 1
                        /\ wg' = wg + 1
                        /\ walkPc' = [walkPc EXCEPT ![e] = "acquire"]
                        /\ UNCHANGED << size, files >>
                   ELSE /\ size' = size + FileSize(e)
                        /\ files' = files + 1
                        /\ UNCHANGED << walkPc, wg, dirs >>
  /\ UNCHANGED << sumPc, sem, errs, res, sumFrame >>

\* the worker's select: case sem <- struct{}{}
workerAcquire(d) ==
  /\ walkPc[d] = "acquire"
  /\ SemHasRoom(sem, SemCap)
  /\ sem' = sem + 1
  /\ walkPc' = [walkPc EXCEPT ![d] = "check"]
  /\ UNCHANGED << sumPc, walkIdx, wg, errs, size, files, dirs, res, sumFrame >>

\* the worker's select: case <-ctx.Done(): return (deferred wg.Done)
workerCancelled(d) ==
  /\ walkPc[d] = "acquire"
  /\ ctxDone
  /\ wg' = wg - 1
  /\ walkPc' = [walkPc EXCEPT ![d] = "done"]
  /\ UNCHANGED << sumPc, walkIdx, sem, errs, size, files, dirs, res, sumFrame >>

\* the worker's deferred calls after walk(cp) returned: <-sem, then wg.Done()
workerRelease(d) ==
  /\ walkPc[d] = "release"
  /\ sem' = sem - 1
  /\ wg' = wg - 1
  /\ walkPc' = [walkPc EXCEPT ![d] = "done"]
  /\ UNCHANGED << sumPc, walkIdx, errs, size, files, dirs, res, sumFrame >>

\* walk(path) has returned: sumDir calls wg.Wait()
sumDirWait ==
  /\ sumPc = "walk"
  /\ walkPc[Root] = "returned"
  /\ sumPc' = "wait"
  /\ UNCHANGED << walkPc, walkIdx, sem, wg, errs, size, files, dirs, res, sumFrame >>

\* wg.Wait() returns, the non-blocking receive from errs, and the return
sumDirReturn ==
  /\ sumPc = "wait"
  /\ wg = 0
  /\ res' = [size |-> size, files |-> files, dirs |-> dirs,
             err |-> IF errs # << >> THEN Head(errs) ELSE NoErr]
  /\ errs' = IF errs # << >> THEN Tail(errs) ELSE errs
  /\ sumPc' = "done"
  /\ UNCHANGED << walkPc, walkIdx, sem, wg, size, files, dirs, sumFrame >>

\* m.cancel(): the context is cancelled while sumDir runs
cancel ==
  /\ ~ctxDone
  /\ sumPc \in {"walk", "wait"}
  /\ ctxDone' = TRUE
  /\ UNCHANGED << fsys, threads, followSymlinks, maxSess, chanCap, sumVars, pureVars, trashVars, memVars, scanVars, tuiVars >>

InitSum ==
  /\ fsys \in TreesOver(MaxEntries)
  /\ threads \in 0..MaxThreads
  /\ followSymlinks \in BOOLEAN
  /\ maxSess = 0
  /\ chanCap = 0
  /\ ctxDone = FALSE
  /\ SumIdle
  /\ MemEmpty
  /\ ScanIdle /\ OverlayIdle
  /\ TuiIdle
  /\ TrashIdle

NextSum ==
  \/ sumDirCall
  \/ \E d \in 0..MaxEntries : walkEnter(d)
  \/ \E d \in 0..MaxEntries : walkEntry(d)
  \/ \E d \in 0..MaxEntries : workerAcquire(d)
  \/ \E d \in 0..MaxEntries : workerCancelled(d)
  \/ \E d \in 0..MaxEntries : workerRelease(d)
  \/ sumDirWait
  \/ sumDirReturn
  \/ cancel

SpecSum == InitSum /\ [][NextSum]_vars

\* the steps of sumDir and of the goroutines it starts
SumSteps ==
  \/ sumDirCall \/ sumDirWait \/ sumDirReturn
  \/ \E d \in 0..MaxEntries :
       walkEnter(d) \/ walkEntry(d) \/ workerAcquire(d) \/ workerCancelled(d) \/ workerRelease(d)

\* sumDir is called, and the Go scheduler runs a goroutine that can take a
\* step; whether and when the context is cancelled is left open
SpecSumFair == SpecSum /\ WF_vars(SumSteps)

\* ------------------------------------------------------------------------
\* Scanner.sumDir as a function of the tree: what a call returns when the
\* context is not cancelled.  The totals are those of the walk; the error is
\* that of any one unreadable directory the walk reaches (the first to put
\* its error into errs, which depends on the schedule), or none.
\* ------------------------------------------------------------------------
ZeroTotals == [size |-> 0, files |-> 0, dirs |-> 0]

AddTotals(a, b) ==
  [size |-> a.size + b.size, files |-> a.files + b.files, dirs |-> a.dirs + b.dirs]

RECURSIVE walkTotals(_, _, _)
RECURSIVE walkEntries(_, _, _)

\* the counters' increments made by walk(p) and by every walk it spawns
walkTotals(t, p, follow) ==
  IF p \in t.unreadable THEN ZeroTotals ELSE walkEntries(t, ReadDir(t, p), follow)

walkEntries(t, ents, follow) ==
  IF ents = << >> THEN ZeroTotals
  ELSE LET e == Head(ents)
           rest == walkEntries(t, Tail(ents), follow)
       IN  IF SkipEntry(t, e, follow) THEN rest
           ELSE IF IsDir(t, e)
             THEN AddTotals([size |-> 0, files |-> 0, dirs |-> 1],
                            AddTotals(walkTotals(t, e, follow), rest))
             ELSE AddTotals([size |-> FileSize(e), files |-> 1, dirs |-> 0], rest)

RECURSIVE walkReaches(_, _)
\* the directories walk(p) is called on: p and, if p can be listed, those
\* reached through its directory entries
walkReaches(t, p) ==
  {p} \cup IF p \in t.unreadable THEN {}
           ELSE UNION { walkReaches(t, e) : e \in { x \in EntriesOf(t) : t.parent[x] = p /\ IsDir(t, x) } }

\* the values the err field of the result can take
sumDirErrs(t, p) ==
  LET failed == walkReaches(t, p) \cap t.unreadable
  IN  IF failed = {} THEN {NoErr} ELSE failed

\* the dirSum values sumDir(ctx, p) can return with ctx not cancelled
sumDirResults(t, p, follow) ==
  { [size |-> walkTotals(t, p, follow).size, files |-> walkTotals(t, p, follow).files,
     dirs |-> walkTotals(t, p, follow).dirs, err |-> x] : x \in sumDirErrs(t, p) }

\* the goroutine-level model of sumDir returns exactly those values
SumDirReturnsOneOfResults ==
  (sumPc = "done" /\ ~ctxDone) => res \in sumDirResults(fsys, Root, followSymlinks)

\* ------------------------------------------------------------------------
\* Scanner.scanDir(ctx, path): every caller passes context.Background(), so
\* the ctx.Done() branch of the worker's select is never taken
\* ------------------------------------------------------------------------
ScanRef(slot) == << 0, slot >>

\* cache.Load(path)
CacheHit(c, path) == path \in DOMAIN c

\* the aggregate loop with "+1 for the child directory itself"
RECURSIVE aggregateCountingChild(_, _, _)
aggregateCountingChild(h, childs, acc) ==
  IF childs = << >> THEN acc
  ELSE LET c == h[Head(childs)]
       IN  aggregateCountingChild(h, Tail(childs),
             [size  |-> acc.size + c.size,
              files |-> acc.files + c.files,
              dirs  |-> acc.dirs + c.dirs + (IF c.files = 1 /\ c.dirs = 0 THEN 0 ELSE 1),
              err   |-> IF c.err # NoErr THEN c.err ELSE acc.err])

\* the "aggregate" loop over children: total, n.Dirs, n.Files, n.Err
RECURSIVE aggregate(_, _, _)
aggregate(h, childs, acc) ==
  IF childs = << >> THEN acc
  ELSE LET c == h[Head(childs)]
           counted == c.dirs > 0 \/ c.files > 0
       IN  aggregate(h, Tail(childs),
             [size  |-> acc.size + c.size,
              files |-> IF counted THEN acc.files + c.files ELSE acc.files,
              dirs  |-> IF counted THEN acc.dirs + c.dirs ELSE acc.dirs,
              err   |-> IF c.err # NoErr THEN c.err ELSE acc.err])

scanDirCall ==
  /\ scanPc = "idle"
  /\ IF CacheHit(cache, Root)
       THEN /\ scanRet' = cache[Root]
            /\ scanPc' = "done"
            /\ UNCHANGED << heap, cache, scanIdx >>
       ELSE IF Root \in fsys.unreadable
         THEN /\ heap' = Alloc(heap, ScanRef(0), [NewNode(Root) EXCEPT !.err = Root])
              /\ cache' = CacheStore(cache, Root, ScanRef(0))
              /\ scanRet' = ScanRef(0)
              /\ scanPc' = "done"
              /\ UNCHANGED scanIdx
         ELSE /\ heap' = Alloc(heap, ScanRef(0), NewNode(Root))
              /\ scanPc' = "loop"
              /\ scanIdx' = 1
              /\ UNCHANGED << cache, scanRet >>
  /\ UNCHANGED << scanChildren, scanWorker, scanSem, scanWg, scanFrame >>

\* one iteration of "for _, e := range entries"
scanEntry ==
  /\ scanPc = "loop"
  /\ LET ents == ReadDir(fsys, Root) IN
     IF scanIdx > Len(ents)
       THEN /\ scanPc' = "wait"
            /\ UNCHANGED << heap, scanIdx, scanChildren, scanWorker, scanWg >>
       ELSE LET e == ents[scanIdx] IN
            /\ scanIdx' = scanIdx + 1
            /\ scanPc' = scanPc
            /\ IF SkipEntry(fsys, e, followSymlinks)
                 THEN UNCHANGED << heap, scanChildren, scanWorker, scanWg >>
                 ELSE /\ scanChildren' = Append(scanChildren, ScanRef(e))
                      /\ IF IsDir(fsys, e)
                           THEN /\ heap' = Alloc(heap, ScanRef(e), NewNode(e))
                                /\ scanWg' = scanWg + 1
                                /\ scanWorker' = [scanWorker EXCEPT ![e] = "acquire"]
                           ELSE /\ heap' = Alloc(heap, ScanRef(e),
                                         [NewNode(e) EXCEPT !.size = FileSize(e), !.files = 1])
                                /\ UNCHANGED << scanWorker, scanWg >>
  /\ UNCHANGED << cache, scanSem, scanRet, scanFrame >>

\* the worker's select: case sem <- struct{}{}; sumDir then runs with the slot
scanWorkerAcquire(e) ==
  /\ scanWorker[e] = "acquire"
  /\ SemHasRoom(scanSem, SemCap)
  /\ scanSem' = scanSem + 1
  /\ scanWorker' = [scanWorker EXCEPT ![e] = "sum"]
  /\ UNCHANGED << heap, cache, scanPc, scanIdx, scanChildren, scanWg, scanRet, scanFrame >>

\* res := s.sumDir(ctx, nd.Path) returns; nd's fields are set under mu; the
\* deferred <-sem and wg.Done() run
scanWorkerSum(e) ==
  /\ scanWorker[e] = "sum"
  /\ \E r \in sumDirResults(fsys, e, followSymlinks) :
       heap' = [heap EXCEPT ![ScanRef(e)] =
                  [@ EXCEPT !.size = r.size, !.files = r.files, !.dirs = r.dirs, !.err = r.err]]
  /\ scanSem' = scanSem - 1
  /\ scanWg' = scanWg - 1
  /\ scanWorker' = [scanWorker EXCEPT ![e] = "done"]
  /\ UNCHANGED << cache, scanPc, scanIdx, scanChildren, scanRet, scanFrame >>

\* wg.Wait() returns; aggregate; cache.Store(path, n); return n
scanAggregate ==
  /\ scanPc = "wait"
  /\ scanWg = 0
  /\ LET a == aggregate(heap, scanChildren,
                        [size |-> 0, files |-> 0, dirs |-> 0, err |-> NoErr])
     IN heap' = [heap EXCEPT ![ScanRef(0)] =
                   [@ EXCEPT !.size = a.size, !.dirs = a.dirs, !.files = a.files,
                             !.err = a.err, !.children = scanChildren, !.scanned = TRUE]]
  /\ cache' = CacheStore(cache, Root, ScanRef(0))
  /\ scanRet' = ScanRef(0)
  /\ scanPc' = "done"
  /\ UNCHANGED << scanIdx, scanChildren, scanWorker, scanSem, scanWg, scanFrame >>

InitScan ==
  /\ fsys \in TreesOver(MaxEntries)
  /\ threads \in 0..MaxThreads
  /\ followSymlinks \in BOOLEAN
  /\ maxSess = 0
  /\ chanCap = 0
  /\ ctxDone = FALSE
  /\ SumIdle
  /\ MemEmpty
  /\ ScanIdle /\ OverlayIdle
  /\ TuiIdle
  /\ TrashIdle

NextScan ==
  \/ scanDirCall
  \/ scanEntry
  \/ \E e \in 1..MaxEntries : scanWorkerAcquire(e)
  \/ \E e \in 1..MaxEntries : scanWorkerSum(e)
  \/ scanAggregate

SpecScan == InitScan /\ [][NextScan]_vars

\* ------------------------------------------------------------------------
\* Scanner.sumDir when the context may have been cancelled: walk checks ctx
\* only on entry, so the result is that of the walks that passed the check,
\* a set of directories closed under "parent was walked and listed"
\* ------------------------------------------------------------------------
WalkedSets(t, p) ==
  { W \in SUBSET walkReaches(t, p) :
      \A d \in W : d = p \/ (t.parent[d] \in W /\ t.parent[d] \notin t.unreadable) }

\* the increments made by the loop of walk(d) itself
RECURSIVE loopTotals(_, _, _)
loopTotals(t, ents, follow) ==
  IF ents = << >> THEN ZeroTotals
  ELSE LET e == Head(ents)
           rest == loopTotals(t, Tail(ents), follow)
       IN  IF SkipEntry(t, e, follow) THEN rest
           ELSE IF IsDir(t, e)
             THEN AddTotals([size |-> 0, files |-> 0, dirs |-> 1], rest)
             ELSE AddTotals([size |-> FileSize(e), files |-> 1, dirs |-> 0], rest)

RECURSIVE walkedTotals(_, _, _)
walkedTotals(t, W, follow) ==
  IF W = {} THEN ZeroTotals
  ELSE LET d == CHOOSE x \in W : TRUE
       IN  AddTotals(IF d \in t.unreadable THEN ZeroTotals
                     ELSE loopTotals(t, ReadDir(t, d), follow),
                     walkedTotals(t, W \ {d}, follow))

\* the dirSum values sumDir(ctx, p) can return once ctx is cancelled
sumDirPartial(t, p, follow) ==
  UNION { { [size |-> walkedTotals(t, W, follow).size,
             files |-> walkedTotals(t, W, follow).files,
             dirs |-> walkedTotals(t, W, follow).dirs, err |-> x] :
            x \in IF W \cap t.unreadable = {} THEN {NoErr} ELSE W \cap t.unreadable } :
          W \in WalkedSets(t, p) }

\* the goroutine-level model of a cancelled sumDir returns one of those
SumDirCancelledReturnsPartial ==
  (sumPc = "done" /\ ctxDone) => res \in sumDirPartial(fsys, Root, followSymlinks)

\* ------------------------------------------------------------------------
\* The program.  NavTree: root holds the empty directory 1, file 2 and
\* symlink 3.  WideTree: root holds directories 1 and 2; directory 1 holds
\* file 3; directory 2 is empty.
\* ------------------------------------------------------------------------
NavTree ==
  [parent |-> << 0, 0, 0 >>,
   kind |-> << "dir", "file", "symlink" >>,
   unreadable |-> {}]

WideTree ==
  [parent |-> << 0, 0, 1 >>,
   kind |-> << "dir", "dir", "file" >>,
   unreadable |-> {}]

\* number of scan sessions a run on NavTree starts
NavSessions == 3

\* number of scan sessions a run on WideTree starts
WideSessions == 1

\* the -threads flag of the runs of the program
TuiThreads == 1

\* LiveTree: root holds the empty directory 1
LiveTree ==
  [parent |-> << 0 >>, kind |-> << "dir" >>, unreadable |-> {}]

\* number of scan sessions a run on LiveTree starts
LiveSessions == 3

\* capacity of the session queues of a run on LiveTree (64 in the program):
\* a scan of its root sends three messages, so its sends block
LiveCap == 1

\* the runs of the program that are explored
Runs == { [tree |-> NavTree, sessions |-> NavSessions],
          [tree |-> WideTree, sessions |-> WideSessions] }

\* ch := make(chan tea.Msg, 64), scaled to the size of the modelled listings
ChanCap == 4

\* child.Size = -1: the sentinel for "scanning"
Sentinel == -1

Ref(s, slot) == << s, slot >>
\* slot of the placeholder a key handler makes for the path it navigates to
NavSlot == -1
\* slot of the placeholder the childUpdateMsg handler makes
MergeSlot == -2

ChildUpdate(path, ref, token, phase) ==
  [parent |-> path, ref |-> ref, token |-> token, phase |-> phase, type |-> "ChildUpdate"]

ScanDone(ref, token) ==
  [parent |-> -1, ref |-> ref, token |-> token, phase |-> 0, type |-> "ScanDone"]

\* the goroutine started by startIncrementalScan(path), before its first step.
\* History: via, the handler that started it; hit, whether the cache held a
\* fully scanned node for path at that moment; listed, whether it has called
\* os.ReadDir; cu, the childUpdateMsgs sent per entry; nDone, the scanDoneMsgs
\* sent; late, whether a childUpdateMsg was sent after a scanDoneMsg
NewSession(path, useFastCache, via, hit) ==
  [path |-> path, pc |-> "start", buf |-> << >>, childs |-> << >>,
   via |-> via, hit |-> hit,
   fast |-> useFastCache, idx |-> 0,
   worker |-> [e \in EntriesOf(fsys) |-> "none"], closed |-> FALSE, listed |-> FALSE, nDone |-> 0, late |-> FALSE,
   cu |-> [e \in EntriesOf(fsys) |-> 0]]

Sessions == 1..Len(sess)

\* a send on ch proceeds only while the buffer is not full
ChanHasRoom(s) == Len(sess[s].buf) < chanCap

\* the cache holds a node for path that is fully scanned
CachedScanned(c, h, path) == CacheHit(c, path) /\ h[c[path]].scanned

\* what a step of a session goroutine leaves alone
sessFrame == << envVars, sumVars, pureVars, trashVars, scanVars, readers, inbox, flushTimers, forced,
                tbl, minElapsed, shown, quit >>

\* ents, err := os.ReadDir(path); err != nil
ListFailsNever(t, path) == FALSE
ListFails(t, path) == path \in t.unreadable

\* first step of the goroutine: the fast path, else os.ReadDir(path)
sessStart(s) ==
  /\ sess[s].pc = "start"
  /\ LET path == sess[s].path IN
     IF sess[s].fast /\ CachedScanned(cache, heap, path)
       THEN /\ sess' = [sess EXCEPT ![s].buf = Append(@, ScanDone(cache[path], s)),
                                    ![s].nDone = @ + 1, ![s].pc = "exit"]
            /\ UNCHANGED heap
       ELSE IF ListFails(fsys, path)
         THEN /\ heap' = Alloc(heap, Ref(s, 0),
                               [NewNode(path) EXCEPT !.err = path, !.scanned = TRUE])
              /\ sess' = [sess EXCEPT ![s].buf = Append(@, ScanDone(Ref(s, 0), s)),
                                      ![s].nDone = @ + 1, ![s].pc = "exit"]
         ELSE /\ sess' = [sess EXCEPT ![s].pc = "loop", ![s].idx = 1, ![s].listed = TRUE]
              /\ UNCHANGED heap
  /\ last' = NoEvent
  /\ UNCHANGED << cache, m, sessFrame >>

\* one iteration of "for _, e := range ents": a skipped symlink, a directory
\* (placeholder update, then its worker is started) or a file (one update)
sessEntry(s) ==
  /\ sess[s].pc = "loop"
  /\ LET ents == ReadDir(fsys, sess[s].path) IN
     IF sess[s].idx > Len(ents)
       THEN /\ sess' = [sess EXCEPT ![s].pc = "wait"]
            /\ UNCHANGED heap
       ELSE LET e == ents[sess[s].idx] IN
            IF SkipEntry(fsys, e, followSymlinks)
              THEN /\ sess' = [sess EXCEPT ![s].idx = @ + 1]
                   /\ UNCHANGED heap
              ELSE /\ ChanHasRoom(s)
                   /\ IF IsDir(fsys, e)
                        THEN /\ heap' = Alloc(heap, Ref(s, e),
                                              [NewNode(e) EXCEPT !.size = Sentinel])
                             /\ sess' = [sess EXCEPT
                                  ![s].idx = @ + 1,
                                  ![s].childs = Append(@, Ref(s, e)),
                                  ![s].buf = Append(@, ChildUpdate(sess[s].path, Ref(s, e), s, 1)),
                                  ![s].cu[e] = @ + 1,
                                  ![s].late = @ \/ sess[s].nDone > 0,
                                  ![s].worker[e] = "sum"]
                        ELSE /\ heap' = Alloc(heap, Ref(s, e),
                                              [NewNode(e) EXCEPT !.size = FileSize(e), !.files = 1])
                             /\ sess' = [sess EXCEPT
                                  ![s].idx = @ + 1,
                                  ![s].childs = Append(@, Ref(s, e)),
                                  ![s].buf = Append(@, ChildUpdate(sess[s].path, Ref(s, e), s, 1)),
                                  ![s].late = @ \/ sess[s].nDone > 0,
                                  ![s].cu[e] = @ + 1]
  /\ last' = NoEvent
  /\ UNCHANGED << cache, m, sessFrame >>

\* the worker: res := m.scanner.sumDir(m.ctx, nd.Path) returns and
\* nd.Size, nd.Files, nd.Dirs, nd.Err are assigned (no lock is held)
sessWorkerSum(s, e) ==
  /\ sess[s].worker[e] = "sum"
  /\ \E r \in IF ctxDone THEN sumDirPartial(fsys, e, followSymlinks)
                         ELSE sumDirResults(fsys, e, followSymlinks) :
       heap' = [heap EXCEPT ![Ref(s, e)] =
                  [@ EXCEPT !.size = r.size, !.files = r.files, !.dirs = r.dirs, !.err = r.err]]
  /\ sess' = [sess EXCEPT ![s].worker[e] = "send"]
  /\ last' = NoEvent
  /\ UNCHANGED << cache, m, sessFrame >>

\* the worker: ch <- childUpdateMsg{child: nd} with the totals; wg.Done()
sessWorkerSend(s, e) ==
  /\ sess[s].worker[e] = "send"
  /\ ChanHasRoom(s)
  /\ sess' = [sess EXCEPT
       ![s].buf = Append(@, ChildUpdate(sess[s].path, Ref(s, e), s, 2)),
       ![s].cu[e] = @ + 1,
       ![s].late = @ \/ sess[s].nDone > 0,
       ![s].worker[e] = "done"]
  /\ last' = NoEvent
  /\ UNCHANGED << heap, cache, m, sessFrame >>

\* wg.Wait() has returned: every worker of the session has called wg.Done()
WorkersJoinedNever(s) == TRUE
WorkersJoined(s) == \A e \in EntriesOf(fsys) : sess[s].worker[e] \in {"none", "done"}

\* the totals loop with "+1 for the child directory itself"
RECURSIVE sessTotalsCountingChild(_, _, _)
sessTotalsCountingChild(h, childs, acc) ==
  IF childs = << >> THEN acc
  ELSE LET c == h[Head(childs)]
       IN  sessTotalsCountingChild(h, Tail(childs),
             [size  |-> acc.size + c.size,
              files |-> acc.files + c.files,
              dirs  |-> acc.dirs + c.dirs + (IF c.files = 1 /\ c.dirs = 0 THEN 0 ELSE 1),
              err   |-> IF c.err # NoErr THEN c.err ELSE acc.err])

\* the totals loop of the session: total, files, dirs, lastErr
RECURSIVE sessTotals(_, _, _)
sessTotals(h, childs, acc) ==
  IF childs = << >> THEN acc
  ELSE LET c == h[Head(childs)]
       IN  sessTotals(h, Tail(childs),
             [size  |-> acc.size + c.size,
              files |-> acc.files + c.files,
              dirs  |-> acc.dirs + c.dirs,
              err   |-> IF c.err # NoErr THEN c.err ELSE acc.err])

\* wg.Wait(); aggregate totals; build n; cache.Store(path, n)
sessAggregate(s) ==
  /\ sess[s].pc = "wait"
  /\ WorkersJoined(s)
  /\ LET a == sessTotals(heap, sess[s].childs,
                         [size |-> 0, files |-> 0, dirs |-> 0, err |-> NoErr])
     IN heap' = Alloc(heap, Ref(s, 0),
                  [size |-> a.size, files |-> a.files, dirs |-> a.dirs,
                   err |-> a.err, path |-> sess[s].path, children |-> sess[s].childs,
                   scanned |-> TRUE])
  /\ cache' = CacheStore(cache, sess[s].path, Ref(s, 0))
  /\ sess' = [sess EXCEPT ![s].pc = "senddone"]
  /\ last' = NoEvent
  /\ UNCHANGED << m, sessFrame >>

\* ch <- scanDoneMsg{node: n, token: token}
sessSendDone(s) ==
  /\ sess[s].pc = "senddone"
  /\ ChanHasRoom(s)
  /\ sess' = [sess EXCEPT ![s].buf = Append(@, ScanDone(Ref(s, 0), s)),
                          ![s].nDone = @ + 1, ![s].pc = "exit"]
  /\ last' = NoEvent
  /\ UNCHANGED << heap, cache, m, sessFrame >>

\* a scanReaderCmd blocked on a closed, drained channel returns nil, which
\* the runtime drops: such a goroutine is gone and is not counted
Drained(ss, s) == ss[s].closed /\ ss[s].buf = << >>

\* the deferred function: close(ch); ongoingScans--; if <= 0, scanInProgress = false
sessExit(s) ==
  /\ sess[s].pc = "exit"
  /\ LET ss == [sess EXCEPT ![s].closed = TRUE, ![s].pc = "done", ![s].childs = << >>]
         mm == [m EXCEPT !.ongoingScans = @ - 1,
                         !.scanInProgress = IF m.ongoingScans - 1 <= 0 THEN FALSE ELSE @]
     IN  /\ sess' = ss
         /\ m' = mm
         /\ readers' = IF Drained(ss, s) THEN [readers EXCEPT ![s] = 0] ELSE readers
         /\ heap' = Collect(heap, RootsOf(mm, cache, ss, inbox, forced))
  /\ last' = NoEvent
  /\ UNCHANGED << cache, envVars, sumVars, pureVars, trashVars, scanVars, inbox, flushTimers, forced,
                  tbl, minElapsed, shown, quit >>

\* ------------------------------------------------------------------------
\* setTableRowsFromNode(n): sorts n.Children in place and sets the rows.
\* sort.Slice on fewer than 13 elements is an insertion sort, as is
\* sort.SliceStable; the default sort mode (size, descending) is modelled.
\* ------------------------------------------------------------------------
\* pass 1: the less function of sort.Slice; pass 2: that of sort.SliceStable
Less(h, pass, a, b) ==
  IF pass = 1 THEN h[a].size > h[b].size
  ELSE IF h[a].size < 0 /\ h[b].size >= 0 THEN FALSE
  ELSE IF h[b].size < 0 /\ h[a].size >= 0 THEN TRUE
  ELSE h[a].size > h[b].size

RECURSIVE insertSorted(_, _, _, _)
insertSorted(h, pass, q, x) ==
  IF q = << >> \/ ~Less(h, pass, x, q[Len(q)]) THEN Append(q, x)
  ELSE Append(insertSorted(h, pass, SubSeq(q, 1, Len(q) - 1), x), q[Len(q)])

RECURSIVE insertionSort(_, _, _, _)
insertionSort(h, pass, q, acc) ==
  IF q = << >> THEN acc
  ELSE insertionSort(h, pass, Tail(q), insertSorted(h, pass, acc, Head(q)))

sortChildren(h, refs) ==
  insertionSort(h, 2, insertionSort(h, 1, refs, << >>), << >>)

\* one table row per child: path, size (the sentinel shows as a spinner), files, dirs
Row(node) == [size |-> node.size, files |-> node.files, dirs |-> node.dirs, path |-> node.path]

RECURSIVE rowsOf(_, _)
rowsOf(h, refs) ==
  IF refs = << >> THEN << >> ELSE << Row(h[Head(refs)]) >> \o rowsOf(h, Tail(refs))

\* the single ".. scanning .." row
ScanningRows == << [size |-> 0, files |-> 0, dirs |-> 0, path |-> -1] >>

\* the heap and the rows after setTableRowsFromNode(n) with m.loading = loading
setTableRowsFromNode(h, n, loading) ==
  IF Len(h[n].children) = 0 /\ (~h[n].scanned \/ loading)
    THEN [heap |-> h, tbl |-> ScanningRows]
    ELSE LET sorted == sortChildren(h, h[n].children)
         IN  [heap |-> [h EXCEPT ![n].children = sorted], tbl |-> rowsOf(h, sorted)]

\* ------------------------------------------------------------------------
\* model.startIncrementalScan and model.Update
\* ------------------------------------------------------------------------
\* cache.Delete(path)
CacheDelete(c, path) == [q \in DOMAIN c \ {path} |-> c[q]]

CurPath(mm) == mm.breadcrumbs[Len(mm.breadcrumbs)]

\* a goroutine of some session has not yet run its deferred function
SessionRunning == \E s \in Sessions : sess[s].pc # "done"

\* startIncrementalScan(path), called by a handler that left the model as mm
\* and the cache as c: the new channel and token, the counters, the goroutine,
\* and the returned scanReaderCmd(ch)
startIncrementalScan(mm, c, path, via) ==
  LET n == Len(sess) + 1 IN
  /\ m' = [mm EXCEPT !.scanCh = n, !.scanToken = n,
                     !.ongoingScans = @ + 1, !.scanInProgress = TRUE]
  /\ sess' = Append(sess, NewSession(path, ~mm.loading, via, CachedScanned(c, heap, path)))
  /\ readers' = Append(readers, 1)

\* a handler returns scanReaderCmd(m.scanCh): one more reader on that channel
ArmNever(rd, s) == rd
Arm(rd, s) == IF Drained(sess, s) THEN rd ELSE [rd EXCEPT ![s] = @ + 1]

\* scanReaderCmd(ch): msg, ok := <-ch with a message in the buffer
readerRecv(s) ==
  /\ readers[s] > 0
  /\ sess[s].buf # << >>
  /\ inbox' = inbox \cup {Head(sess[s].buf)}
  /\ LET ss == [sess EXCEPT ![s].buf = Tail(@)]
     IN  /\ sess' = ss
         /\ readers' = [readers EXCEPT ![s] = IF Drained(ss, s) THEN 0 ELSE @ - 1]
  /\ last' = NoEvent
  /\ UNCHANGED << envVars, sumVars, pureVars, trashVars, scanVars, memVars, m, flushTimers, forced, tbl,
                  minElapsed, shown, quit >>

\* "if msg.token != m.scanToken": the message is from a stale scan
IsStaleNever(msg, mm) == FALSE
IsStale(msg, mm) == msg.token # mm.scanToken

\* index of the child of n whose Path is path, or 0
ChildIndexNever(h, n, path) == 0
ChildIndex(h, n, path) ==
  LET hits == { i \in 1..Len(h[n].children) : h[h[n].children[i]].path = path }
  IN  IF hits = {} THEN 0 ELSE CHOOSE i \in hits : \A j \in hits : i <= j

\* "recompute totals treating unknown sizes as zero"
RECURSIVE liveTotals(_, _, _)
liveTotals(h, childs, acc) ==
  IF childs = << >> THEN acc
  ELSE LET c == h[Head(childs)]
       IN  liveTotals(h, Tail(childs),
             [size  |-> IF c.size > 0 THEN acc.size + c.size ELSE acc.size,
              files |-> acc.files + c.files,
              dirs  |-> acc.dirs + c.dirs])

\* "start debounce timer if not active"
StartsDebounceAlways(mm) == TRUE
StartsDebounceNever(mm) == FALSE
StartsDebounce(mm) == ~mm.debounceActive

\* Update(childUpdateMsg)
UpdateChildUpdate(msg) ==
  /\ ~quit
  /\ msg \in inbox /\ msg.type = "ChildUpdate"
  /\ inbox' = inbox \ {msg}
  /\ readers' = Arm(readers, m.scanCh)
  /\ IF IsStale(msg, m)
       THEN /\ last' = [NoEvent EXCEPT !.op = "ChildUpdate", !.token = msg.token,
                          !.stale = (msg.token # m.scanToken),
                          !.phase = msg.phase, !.ref = msg.ref,
                          !.seen = heap[msg.ref].size]
            /\ heap' = Collect(heap, RootsOf(m, cache, sess, inbox \ {msg}, forced))
            /\ UNCHANGED << cache, m, flushTimers >>
       ELSE LET curPath == CurPath(m)
                fresh == m.current = Nil \/ heap[m.current].path # curPath
                cur == IF fresh THEN Ref(msg.token, MergeSlot) ELSE m.current
                h1 == IF fresh THEN Alloc(heap, cur, NewNode(curPath)) ELSE heap
                i == ChildIndex(h1, cur, heap[msg.ref].path)
                kids == IF i # 0 THEN [h1[cur].children EXCEPT ![i] = msg.ref]
                        ELSE Append(h1[cur].children, msg.ref)
                t == liveTotals(h1, kids, ZeroTotals)
            IN  /\ heap' = [h1 EXCEPT ![cur] =
                              [@ EXCEPT !.children = kids, !.size = t.size,
                                        !.files = t.files, !.dirs = t.dirs]]
                /\ cache' = CacheStore(cache, curPath, cur)
                /\ m' = [m EXCEPT !.current = cur, !.pendingUpdates = TRUE,
                                  !.debounceActive = TRUE]
                /\ flushTimers' = IF StartsDebounce(m) THEN flushTimers + 1 ELSE flushTimers
                /\ last' = [NoEvent EXCEPT !.op = "ChildUpdate", !.token = msg.token,
                              !.stale = (msg.token # m.scanToken),
                              !.phase = msg.phase, !.ref = msg.ref,
                              !.seen = heap[msg.ref].size]
  /\ UNCHANGED << envVars, sumVars, pureVars, trashVars, scanVars, sess, forced, tbl, minElapsed, shown, quit >>

\* Update(flushUpdatesMsg), when a debounce tick fires
UpdateFlush ==
  /\ ~quit
  /\ flushTimers > 0
  /\ flushTimers' = flushTimers - 1
  /\ IF m.pendingUpdates
       THEN LET r == setTableRowsFromNode(heap, m.current, m.loading)
            IN  heap' = r.heap /\ tbl' = r.tbl
       ELSE UNCHANGED << heap, tbl >>
  /\ m' = [m EXCEPT !.pendingUpdates = FALSE, !.debounceActive = FALSE]
  /\ readers' = Arm(readers, m.scanCh)
  /\ last' = [NoEvent EXCEPT !.op = "Flush", !.published = m.pendingUpdates]
  /\ UNCHANGED << envVars, sumVars, pureVars, trashVars, scanVars, cache, sess, inbox, forced, minElapsed, shown, quit >>

\* Update(loadingTickMsg): the 120 ms ticker started by Init and by every scan
UpdateLoadingTick ==
  /\ ~quit
  /\ ~m.pendingUpdates /\ m.current # Nil
  /\ LET r == setTableRowsFromNode(heap, m.current, m.loading)
     IN  heap' = r.heap /\ tbl' = r.tbl
  /\ last' = [NoEvent EXCEPT !.op = "Tick", !.published = TRUE]
  /\ UNCHANGED << envVars, sumVars, pureVars, trashVars, scanVars, cache, m, sess, readers, inbox,
                  flushTimers, forced, minElapsed, shown, quit >>

\* "Only clear loading state if no other scans are ongoing"
ClearsLoading(mm) == mm.ongoingScans <= 1 /\ ~mm.scanInProgress

\* Update(scanDoneMsg)
UpdateScanDone(msg) ==
  /\ ~quit
  /\ msg \in inbox /\ msg.type = "ScanDone"
  /\ inbox' = inbox \ {msg}
  /\ IF IsStale(msg, m) \/ heap[msg.ref].path # CurPath(m)
       THEN /\ cache' = CacheStore(cache, heap[msg.ref].path, msg.ref)
            /\ heap' = Collect(heap, RootsOf(m, cache', sess, inbox', forced))
            /\ last' = [NoEvent EXCEPT !.op = "ScanDone", !.token = msg.token,
                          !.stale = (msg.token # m.scanToken), !.ref = msg.ref]
            /\ UNCHANGED << m, forced, tbl >>
       ELSE IF ~minElapsed
         THEN \* elapsed < m.loadingMinDuration: keep loading, tick after the rest
              /\ m' = [m EXCEPT !.current = msg.ref]
              /\ forced' = forced \cup {ScanDone(msg.ref, msg.token)}
              /\ heap' = Collect(heap, RootsOf(m', cache, sess, inbox', forced'))
              /\ last' = [NoEvent EXCEPT !.op = "ScanDone", !.token = msg.token,
                            !.stale = (msg.token # m.scanToken), !.ref = msg.ref]
              /\ UNCHANGED << cache, tbl >>
         ELSE LET mm == [m EXCEPT !.current = msg.ref,
                                  !.loading = IF ClearsLoading(m) THEN FALSE ELSE @]
                  r == setTableRowsFromNode(heap, msg.ref, mm.loading)
              IN  /\ m' = mm
                  /\ heap' = Collect(r.heap, RootsOf(mm, cache, sess, inbox', forced))
                  /\ tbl' = r.tbl
                  /\ last' = [NoEvent EXCEPT !.op = "ScanDone", !.token = msg.token,
                                !.stale = (msg.token # m.scanToken),
                                !.ref = msg.ref, !.published = TRUE]
                  /\ UNCHANGED << cache, forced >>
  /\ UNCHANGED << envVars, sumVars, pureVars, trashVars, scanVars, sess, readers, flushTimers, minElapsed, shown, quit >>

\* Update(struct{scanDoneMsg; forceComplete bool}): the tick scheduled by
\* the scanDoneMsg handler fires once the remaining minimum time has passed
UpdateForced(msg) ==
  /\ ~quit
  /\ msg \in forced
  /\ minElapsed
  /\ forced' = forced \ {msg}
  /\ IF ~IsStale(msg, m) /\ heap[msg.ref].path = CurPath(m) /\ m.current # Nil
       THEN LET mm == [m EXCEPT !.loading = IF ClearsLoading(m) THEN FALSE ELSE @]
                r == setTableRowsFromNode(heap, msg.ref, mm.loading)
            IN  /\ m' = mm
                /\ heap' = Collect(r.heap, RootsOf(mm, cache, sess, inbox, forced'))
                /\ tbl' = r.tbl
                /\ last' = [NoEvent EXCEPT !.op = "Forced", !.token = msg.token,
                              !.stale = (msg.token # m.scanToken),
                              !.ref = msg.ref, !.published = TRUE]
       ELSE /\ last' = [NoEvent EXCEPT !.op = "Forced", !.token = msg.token,
                          !.stale = (msg.token # m.scanToken), !.ref = msg.ref]
            /\ heap' = Collect(heap, RootsOf(m, cache, sess, inbox, forced'))
            /\ UNCHANGED << m, tbl >>
  /\ UNCHANGED << envVars, sumVars, pureVars, trashVars, scanVars, cache, sess, readers, inbox, flushTimers,
                  minElapsed, shown, quit >>

\* the minimum loading time passes
timePasses ==
  /\ ~minElapsed \/ ~shown
  /\ minElapsed' = TRUE /\ shown' = TRUE
  /\ last' = NoEvent
  /\ UNCHANGED << envVars, sumVars, pureVars, trashVars, scanVars, memVars, m, sess, readers, inbox,
                  flushTimers, forced, tbl, quit >>

NavKeys == {"enter", "backspace", "r"}

\* "if m.loading": every key but quit and the cursor keys is swallowed
KeysSwallowedNever(mm) == FALSE
KeysSwallowed(mm) == mm.loading

KeyEvent(k, accepted) ==
  [NoEvent EXCEPT !.op = "Key", !.key = k, !.accepted = accepted, !.busy = SessionRunning]

\* "Only drill into directories": the row is taken for a plain file
TakenForFile(child) == child.files = 1 /\ child.dirs = 0 /\ Len(child.children) = 0

\* Update(tea.KeyMsg) while loading, for any key but quit and the cursor
\* keys (Enter, Backspace and r among them): "swallow any other key"
keySwallowed ==
  /\ ~quit
  /\ KeysSwallowed(m)
  /\ last' = KeyEvent("nav", FALSE)
  /\ UNCHANGED << envVars, sumVars, pureVars, trashVars, scanVars, memVars, m, sess, readers, inbox,
                  flushTimers, forced, tbl, minElapsed, shown, quit >>

\* Update(tea.KeyMsg) while not loading, for a navigation key that does not
\* apply: Enter with no row or on a row taken for a plain file, Backspace
\* at the root
keyNotApplicable(k) ==
  /\ ~quit
  /\ ~KeysSwallowed(m)
  /\ \/ /\ k = "enter"
        /\ IF m.current = Nil THEN TRUE
           ELSE \/ Len(heap[m.current].children) = 0
                \/ \E i \in 1..Len(heap[m.current].children) :
                     TakenForFile(heap[heap[m.current].children[i]])
     \/ k = "backspace" /\ Len(m.breadcrumbs) <= 1
  /\ last' = KeyEvent(k, FALSE)
  /\ UNCHANGED << envVars, sumVars, pureVars, trashVars, scanVars, memVars, m, sess, readers, inbox,
                  flushTimers, forced, tbl, minElapsed, shown, quit >>

\* the placeholder a key handler shows, then the scan it starts:
\* m.current = &Node{Path: path, Children: []*Node{}}; setTableRowsFromNode;
\* m.loading = true; m.loadingStartTime = time.Now(); startIncrementalScan(path)
navigate(crumbs, c, path, via) ==
  LET ref == Ref(Len(sess) + 1, NavSlot)
      h1 == Alloc(heap, ref, NewNode(path))
      r == setTableRowsFromNode(h1, ref, m.loading)
      mm == [m EXCEPT !.breadcrumbs = crumbs, !.current = ref, !.loading = TRUE]
  IN  /\ Len(sess) < maxSess
      /\ heap' = Collect(r.heap, RootsOf(mm, c, sess, inbox, forced))
      /\ tbl' = r.tbl
      /\ cache' = c
      /\ minElapsed' = FALSE /\ shown' = FALSE
      /\ startIncrementalScan(mm, c, path, via)
      /\ last' = KeyEvent(via, TRUE)
      /\ UNCHANGED << envVars, sumVars, pureVars, trashVars, scanVars, inbox, flushTimers, forced, quit >>

\* Update(tea.KeyMsg "enter") with the cursor on row i
keyEnter(i) ==
  /\ ~quit /\ ~KeysSwallowed(m)
  /\ m.current # Nil
  /\ i \in 1..Len(heap[m.current].children)
  /\ LET child == heap[heap[m.current].children[i]] IN
     /\ ~TakenForFile(child)
     /\ navigate(Append(m.breadcrumbs, child.path), cache, child.path, "enter")

\* Update(tea.KeyMsg "backspace")
keyBackspace ==
  /\ ~quit /\ ~KeysSwallowed(m)
  /\ Len(m.breadcrumbs) > 1
  /\ LET crumbs == SubSeq(m.breadcrumbs, 1, Len(m.breadcrumbs) - 1)
     IN  navigate(crumbs, cache, crumbs[Len(crumbs)], "backspace")

\* Update(tea.KeyMsg "r"): cache.Delete(cur), then as above
keyRescan ==
  /\ ~quit /\ ~KeysSwallowed(m)
  /\ navigate(m.breadcrumbs, CacheDelete(cache, CurPath(m)), CurPath(m), "r")

\* Update(tea.KeyMsg "q" / "ctrl+c"): m.cancel(); return m, tea.Quit
keyQuit ==
  /\ ~quit
  /\ quit' = TRUE
  /\ ctxDone' = TRUE
  /\ last' = [NoEvent EXCEPT !.op = "Key", !.key = "q", !.accepted = TRUE]
  /\ UNCHANGED << fsys, threads, followSymlinks, maxSess, chanCap, sumVars, pureVars, trashVars, scanVars, memVars, m, sess,
                  readers, inbox, flushTimers, forced, tbl, minElapsed, shown >>

\* the state after initialModel(root, threads, follow) and m.Init() on
\* tree t: cache.Delete(root); m.loading = true; startIncrementalScan(root)
RunOn(t, n, cap) ==
  /\ fsys = t
  /\ maxSess = n
  /\ chanCap = cap
  /\ threads = TuiThreads
  /\ followSymlinks = FALSE
  /\ ctxDone = FALSE
  /\ SumIdle /\ ScanIdle /\ OverlayIdle /\ MemEmpty
  /\ m = [current |-> Nil, ongoingScans |-> 1, scanInProgress |-> TRUE,
          loading |-> TRUE, breadcrumbs |-> << Root >>, scanCh |-> 1,
          scanToken |-> 1, debounceActive |-> FALSE, pendingUpdates |-> FALSE]
  /\ sess = << NewSession(Root, FALSE, "init", FALSE) >>
  /\ readers = << 1 >>
  /\ inbox = {} /\ flushTimers = 0 /\ forced = {}
  /\ tbl = << >>
  /\ minElapsed = FALSE /\ shown = FALSE /\ quit = FALSE
  /\ last = NoEvent

\* a run in which nothing is deleted
InitRun(t, n, cap) == RunOn(t, n, cap) /\ TrashIdle

InitOn(t, n) == InitRun(t, n, ChanCap)

Init == \E run \in Runs : InitOn(run.tree, run.sessions)

Next ==
  \/ \E s \in Sessions : sessStart(s)
  \/ \E s \in Sessions : sessEntry(s)
  \/ \E s \in Sessions : \E e \in EntriesOf(fsys) : sessWorkerSum(s, e)
  \/ \E s \in Sessions : \E e \in EntriesOf(fsys) : sessWorkerSend(s, e)
  \/ \E s \in Sessions : sessAggregate(s)
  \/ \E s \in Sessions : sessSendDone(s)
  \/ \E s \in Sessions : sessExit(s)
  \/ \E s \in Sessions : readerRecv(s)
  \/ \E msg \in inbox : UpdateChildUpdate(msg)
  \/ \E msg \in inbox : UpdateScanDone(msg)
  \/ \E msg \in forced : UpdateForced(msg)
  \/ UpdateFlush
  \/ UpdateLoadingTick
  \/ timePasses
  \/ keySwallowed
  \/ \E k \in NavKeys : keyNotApplicable(k)
  \/ \E i \in 1..(MaxEntries + 3) : keyEnter(i)
  \/ keyBackspace
  \/ keyRescan

Spec == Init /\ [][Next]_vars

\* the program with the quit key: m.cancel() cancels the context of every sumDir
NextQuit == Next \/ keyQuit

SpecQuit == Init /\ [][NextQuit]_vars

\* ------------------------------------------------------------------------
\* The program when Update, the entry point the runtime calls with every
\* message, is also handed the scanDoneMsg of a session that has sent one
\* and whose token is not the active one (in Spec every scanDoneMsg is
\* handled before the next session starts)
\* ------------------------------------------------------------------------
handScanDone(s) ==
  /\ ~quit
  /\ s # m.scanToken
  /\ sess[s].nDone > 0
  /\ Ref(s, 0) \in DOMAIN heap
  /\ ScanDone(Ref(s, 0), s) \notin inbox
  /\ inbox' = inbox \cup {ScanDone(Ref(s, 0), s)}
  /\ last' = NoEvent
  /\ UNCHANGED << envVars, sumVars, pureVars, memVars, scanVars, trashVars, m, sess, readers,
                  flushTimers, forced, tbl, minElapsed, shown, quit >>

\* number of scan sessions a run of SpecHanded starts
HandedSessions == 3

InitHanded == InitRun(LiveTree, HandedSessions, LiveCap)

NextHanded == Next \/ \E s \in Sessions : handScanDone(s)

SpecHanded == InitHanded /\ [][NextHanded]_vars

\* the steps of the session goroutines and of their workers
Producer ==
  \E s \in Sessions :
    \/ sessStart(s) \/ sessEntry(s) \/ sessAggregate(s) \/ sessSendDone(s) \/ sessExit(s)
    \/ \E e \in EntriesOf(fsys) : sessWorkerSum(s, e) \/ sessWorkerSend(s, e)

\* the scanReaderCmd goroutines the runtime runs
Reader == \E s \in Sessions : readerRecv(s)

\* the event loop handing the delivered scan messages to Update
Consumer == \E msg \in inbox : UpdateChildUpdate(msg) \/ UpdateScanDone(msg)

\* the Go scheduler runs every runnable goroutine, and the Bubble Tea event
\* loop handles every message delivered to it
Fairness == WF_vars(Producer) /\ WF_vars(Reader) /\ WF_vars(Consumer)

\* the program on LiveTree, whose sessions send more than their queues hold
InitLive == InitRun(LiveTree, LiveSessions, LiveCap)

SpecLive == InitLive /\ [][Next]_vars /\ Fairness

\* tea.Tick hands its flushUpdatesMsg to the event loop once the debounce
\* interval has passed, and the loop handles it
TickFairness == WF_vars(UpdateFlush)

SpecFlush == InitLive /\ [][Next]_vars /\ Fairness /\ TickFairness

\* DeniedTree: root holds the directory 1, which cannot be listed; file 2
\* is in it
DeniedTree ==
  [parent |-> << 0, 1 >>, kind |-> << "dir", "file" >>, unreadable |-> {1}]

\* number of scan sessions a run on DeniedTree starts
DeniedSessions == 3

\* the program on DeniedTree: entering directory 1 scans a path that
\* cannot be listed
InitDenied == InitRun(DeniedTree, DeniedSessions, LiveCap)

SpecDenied == InitDenied /\ [][Next]_vars /\ Fairness

\* ------------------------------------------------------------------------
\* The trash.  A path is [at, name]: at is "dir" for the directory the
\* program shows and "trash" for getTrashDir(); a name is a sequence of
\* parts, so that path + suffix and path + ".meta.json" append a part.
\* disk maps each path that exists to what it holds.
\* ------------------------------------------------------------------------
File(d) == [kind |-> "file", kids |-> << >>, data |-> d]
Dir(k) == [kind |-> "dir", kids |-> k, data |-> ""]
Nothing == [kind |-> "none", kids |-> << >>, data |-> ""]

\* a symbolic link whose target does not exist
Link == [kind |-> "symlink", kids |-> << >>, data |-> ""]

\* a file os.Create made and io.Copy did not complete
Torn == File("torn")

\* the file writeTrashMeta writes: json.Marshal(ti)
Sidecar == File("json")

InDir(name) == [name |-> name, at |-> "dir"]

\* filepath.Join(getTrashDir(), base)
InTrash(name) == [name |-> name, at |-> "trash"]

\* path + part
Plus(p, part) == [p EXCEPT !.name = Append(@, part)]

\* trashPath + ".meta.json"
MetaPath(p) == Plus(p, ".meta.json")

\* the values uniqueSuffix() returns, in the order drawn: random, so never
\* one that was drawn before
Suffixes == << "-s1", "-s2" >>

\* the n-th call of uniqueSuffix()
uniqueSuffix(n) == Suffixes[n]

\* the directory that holds p has an entry for it (os.Lstat succeeds)
Present(d, p) == p \in DOMAIN d

\* _, err := os.Stat(p); err == nil: os.Stat follows a symbolic link
Exists(d, p) == Present(d, p) /\ d[p] # Link

\* the entry of p becomes c
Put(d, p, c) == [q \in DOMAIN d \cup {p} |-> IF q = p THEN c ELSE d[q]]

\* os.Create(p) or os.WriteFile(p) and the writes of c: through a symbolic
\* link the data goes to the link's target and the link stays
Create(d, p, c) ==
  IF Present(d, p) /\ d[p].kind = "symlink" THEN Put(d, p, [d[p] EXCEPT !.data = c.data])
  ELSE Put(d, p, c)

\* os.MkdirAll(p) fails: p is there and is not a directory
MkdirFails(d, p) == Present(d, p) /\ d[p].kind # "dir"

\* os.Remove(p) / os.RemoveAll(p)
Del(d, p) == [q \in DOMAIN d \ {p} |-> d[q]]

\* os.Rename(a, b) succeeds: a is there, and is not a directory to be put
\* in the place of something that is not one
RenameOk(d, a, b) == Present(d, a) /\ ~(d[a].kind = "dir" /\ MkdirFails(d, b))

\* os.Rename(a, b): what b held is replaced
Rename(d, a, b) == Put(Del(d, a), b, d[a])

\* fiIsDir(path): os.Stat(path) succeeds and reports a directory
fiIsDir(d, p) == Exists(d, p) /\ d[p].kind = "dir"

\* A fault is the file-system call of moveToTrash or restoreFromTrash that
\* fails: none, os.MkdirAll of the trash directory, os.Rename alone,
\* os.Rename and then the os.Stat of the fallback, the k-th call of the copy
\* or the removal of the source, writeTrashMeta, or the removal of the sidecar.
NoFault == [k |-> 0, at |-> "none"]

\* the faults of the fallback: os.Rename has failed before them
RenameFails == {"rename", "stat", "copy", "remove"}

\* the remaining count after one more call of the copy succeeded
After(k) == IF k = 0 THEN 0 ELSE k - 1

\* copyFile(src, dst) of content c when call k fails: os.Open / os.Create
\* (nothing is made), then io.Copy (the created file is left incomplete)
copyFile(c, k) ==
  IF k = 1 THEN [k |-> 0, ok |-> FALSE, out |-> Nothing]
  ELSE IF k = 2 THEN [k |-> 0, ok |-> FALSE, out |-> Torn]
  ELSE [k |-> After(After(k)), ok |-> TRUE, out |-> File(c.data)]

RECURSIVE copyDir(_, _)
RECURSIVE copyEntries(_, _, _)
\* the loop "for _, e := range entries" of copyDir, acc the entries made so
\* far: the first error returns, leaving what was made
copyEntries(kids, k, acc) ==
  IF kids = << >> THEN [k |-> k, ok |-> TRUE, out |-> Dir(acc)]
  ELSE LET c == Head(kids)
           r == IF c.kind = "dir" THEN copyDir(c, k) ELSE copyFile(c, k)
       IN  IF r.ok THEN copyEntries(Tail(kids), r.k, Append(acc, r.out))
           ELSE [k |-> 0,
                 ok |-> FALSE,
                 out |-> Dir(IF r.out = Nothing THEN acc ELSE Append(acc, r.out))]

\* copyDir(src, dst) of content c when call k fails: os.ReadDir /
\* os.MkdirAll (nothing is made), then the entries in order
copyDir(c, k) ==
  IF k = 1 THEN [k |-> 0, ok |-> FALSE, out |-> Nothing]
  ELSE copyEntries(c.kids, After(k), << >>)

\* the copy of the fallback: copyDir for a directory, copyFile otherwise
copyAny(c, k) == IF c.kind = "dir" THEN copyDir(c, k) ELSE copyFile(c, k)

\* number of file-system calls the copy of c makes
RECURSIVE copySteps(_)
RECURSIVE copyStepsOf(_)
copyStepsOf(kids) ==
  IF kids = << >> THEN 0 ELSE copySteps(Head(kids)) + copyStepsOf(Tail(kids))
copySteps(c) == IF c.kind = "dir" THEN 1 + copyStepsOf(c.kids) ELSE 2

\* the faults a call that copies content c can meet
FaultsOn(c) ==
  { [k |-> 0, at |-> a] :
      a \in {"none", "mkdir", "rename", "stat", "remove", "meta", "unmeta"} }
    \cup { [k |-> i, at |-> "copy"] : i \in 1..copySteps(c) }

\* a nil *TrashItem
NoItem ==
  [name |-> << >>, trashPath |-> InTrash(<< >>), origPath |-> InDir(<< >>),
   deletedAt |-> -1, isDir |-> FALSE, was |-> Nothing]

\* TrashItem{Name, TrashPath, OrigPath, DeletedAt, IsDir}.  History: was,
\* what the path held when moveToTrash was called
TrashItem(base, dst, src, t, isDir, c) ==
  [name |-> base, trashPath |-> dst, origPath |-> src, deletedAt |-> t,
   isDir |-> isDir, was |-> c]

\* moveToTrash(src) on disk d under fault f, with x the trash directory on
\* another device, sfx the next unique suffix and t the time: the disk left
\* behind, the returned item and error, and whether a suffix was drawn
moveToTrash(d, src, f, x, sfx, t) ==
  LET base == src.name
      plain == InTrash(base)
      drew == Exists(d, plain)
      dst == IF drew THEN Plus(plain, sfx) ELSE plain
      c == IF Present(d, src) THEN d[src] ELSE Nothing
      wrote(dd, to, out) == IF out = Nothing THEN dd
                            ELSE IF out.kind = "dir" THEN Put(dd, to, out)
                            ELSE Create(dd, to, out)
      failed(dd) == [disk |-> dd, err |-> TRUE, drew |-> drew, item |-> NoItem]
  IN  IF f.at = "mkdir"
        THEN [disk |-> d, err |-> TRUE, drew |-> FALSE, item |-> NoItem]
      ELSE IF RenameOk(d, src, dst) /\ ~x /\ f.at \notin RenameFails
        THEN LET d1 == Rename(d, src, dst)
             IN  [disk |-> IF f.at = "meta" THEN d1 ELSE Create(d1, MetaPath(dst), Sidecar),
                  err |-> FALSE,
                  drew |-> drew, item |-> TrashItem(base, dst, src, t, fiIsDir(d1, src), c)]
      ELSE IF ~Exists(d, src) \/ f.at = "stat" THEN failed(d)
      ELSE IF c.kind = "dir" /\ MkdirFails(d, dst) THEN failed(d)
      ELSE LET r == copyAny(c, IF f.at = "copy" THEN f.k ELSE 0)
               d1 == wrote(d, dst, r.out)
           IN  IF ~r.ok \/ f.at = "remove" THEN failed(d1)
               ELSE IF f.at = "meta"
                 THEN [disk |-> Del(d1, src),
                       err |-> TRUE,
                       drew |-> drew, item |-> TrashItem(base, dst, src, t, c.kind = "dir", c)]
               ELSE [disk |-> Create(Del(d1, src), MetaPath(dst), Sidecar),
                     err |-> FALSE,
                     drew |-> drew, item |-> TrashItem(base, dst, src, t, c.kind = "dir", c)]

\* restoreFromTrash(ti) on disk d under fault f: the disk left behind, the
\* returned error, the destination chosen and whether a suffix was drawn
restoreFromTrash(d, ti, f, x, sfx) ==
  LET drew == Exists(d, ti.origPath)
      dst == IF drew THEN Plus(ti.origPath, sfx) ELSE ti.origPath
      meta == MetaPath(ti.trashPath)
      unmeta(dd) == IF f.at = "unmeta" \/ ~Present(dd, meta) THEN dd ELSE Del(dd, meta)
      wrote(dd, out) == IF out = Nothing THEN dd
                        ELSE IF out.kind = "dir" THEN Put(dd, dst, out)
                        ELSE Create(dd, dst, out)
      result(dd, e) == [disk |-> dd, err |-> e, dst |-> dst, drew |-> drew]
  IN  IF ti = NoItem
        THEN [disk |-> d, err |-> TRUE, dst |-> ti.origPath, drew |-> FALSE]
      ELSE IF RenameOk(d, ti.trashPath, dst) /\ ~x /\ f.at \notin RenameFails
        THEN result(unmeta(Rename(d, ti.trashPath, dst)), FALSE)
      ELSE IF ~Exists(d, ti.trashPath) \/ f.at = "stat" THEN result(d, TRUE)
      ELSE IF d[ti.trashPath].kind = "dir" /\ MkdirFails(d, dst) THEN result(d, TRUE)
      ELSE LET r == copyAny(d[ti.trashPath], IF f.at = "copy" THEN f.k ELSE 0)
               d1 == wrote(d, r.out)
           IN  IF ~r.ok \/ f.at = "remove" THEN result(d1, TRUE)
               ELSE result(unmeta(Del(d1, ti.trashPath)), FALSE)

\* ------------------------------------------------------------------------
\* moveToTrash and restoreFromTrash called directly, as the test
\* TestMoveAndRestoreFile calls them, while another process may create
\* entries in the directory
\* ------------------------------------------------------------------------
\* the base names of the entries of the directory
TrashNames == { << "x" >>, << "x", ".meta.json" >> }

\* what an entry of the directory holds at the start
Contents == { File("a"), Dir(<< Dir(<< File("a") >>), File("b") >>) }

\* number of TrashItems the caller holds at a time
MaxItems == 2

\* number of calls made in a run; each call takes one tick of the clock
MaxCalls == 3

\* m.deletePath = ""
NoPath == -1

\* the trash fields of the model struct after initialModel
NewTrash ==
  [history |-> << >>, confirmDelete |-> FALSE, confirmFocus |-> 0,
   deletePath |-> NoPath, status |-> ""]

\* the directories that can be found at the start: some of the names exist
StartDisks ==
  UNION { [ { InDir(n) : n \in N } -> Contents ] : N \in (SUBSET TrashNames) \ {{}} }

\* History: the call made last, the disk it found, what it returned
Call(op, item, err, before, dst) ==
  [err |-> err, op |-> op, dst |-> dst, item |-> item, before |-> before]

\* s with its i-th element removed
Without(s, i) == SubSeq(s, 1, i - 1) \o SubSeq(s, i + 1, Len(s))

\* what the trash calls leave alone
trashFrame == << envVars, sumVars, pureVars, memVars, scanVars, tuiVars >>

\* ti, err := moveToTrash(p); the caller keeps ti when err is nil
callMoveToTrash(p, f) ==
  /\ now < MaxCalls
  /\ Len(trash.history) < MaxItems
  /\ nsfx < Len(Suffixes)
  /\ f \in FaultsOn(IF Present(disk, p) THEN disk[p] ELSE Nothing)
  /\ LET r == moveToTrash(disk, p, f, xdev, uniqueSuffix(nsfx + 1), now)
     IN  /\ disk' = r.disk
         /\ nsfx' = IF r.drew THEN nsfx + 1 ELSE nsfx
         /\ trash' = IF r.err THEN trash
                     ELSE [trash EXCEPT !.history = Append(@, r.item)]
         /\ tlast' = Call("moveToTrash", r.item, r.err, disk, r.item.trashPath)
  /\ now' = now + 1
  /\ UNCHANGED << xdev, trashFrame >>

\* err := restoreFromTrash(ti) for an item the caller holds; the caller
\* drops ti when err is nil
callRestoreFromTrash(i, f) ==
  /\ now < MaxCalls
  /\ i \in 1..Len(trash.history)
  /\ nsfx < Len(Suffixes)
  /\ LET ti == trash.history[i]
         r == restoreFromTrash(disk, ti, f, xdev, uniqueSuffix(nsfx + 1))
     IN  /\ f \in FaultsOn(ti.was)
         /\ disk' = r.disk
         /\ nsfx' = IF r.drew THEN nsfx + 1 ELSE nsfx
         /\ trash' = IF r.err THEN trash
                     ELSE [trash EXCEPT !.history = Without(@, i)]
         /\ tlast' = Call("restoreFromTrash", ti, r.err, disk, r.dst)
  /\ now' = now + 1
  /\ UNCHANGED << xdev, trashFrame >>

\* another process creates a file, or a symbolic link to a path that does
\* not exist, at the free path p of the directory
otherProcessCreates(p) ==
  /\ ~Present(disk, p)
  /\ \E c \in {File("other"), Link} : disk' = Put(disk, p, c)
  /\ tlast' = NoCall
  /\ UNCHANGED << xdev, nsfx, now, trash, trashFrame >>

InitTrash ==
  /\ fsys = LiveTree
  /\ threads = TuiThreads
  /\ followSymlinks = FALSE
  /\ maxSess = 0 /\ chanCap = 0
  /\ ctxDone = FALSE
  /\ SumIdle /\ MemEmpty /\ ScanIdle /\ OverlayIdle /\ TuiIdle
  /\ disk \in StartDisks
  /\ xdev \in BOOLEAN
  /\ nsfx = 0 /\ now = 0
  /\ trash = NewTrash
  /\ tlast = NoCall

\* every fault that some call can meet
AllFaults == UNION { FaultsOn(c) : c \in Contents }

NextTrash ==
  \/ \E n \in TrashNames : \E f \in AllFaults : callMoveToTrash(InDir(n), f)
  \/ \E i \in 1..MaxItems : \E f \in AllFaults : callRestoreFromTrash(i, f)
  \/ \E n \in TrashNames : otherProcessCreates(InDir(n))

SpecTrash == InitTrash /\ [][NextTrash]_vars

\* ------------------------------------------------------------------------
\* The program with the delete and undo keys, on UndoTree: the root holds
\* the files 1 and 2, whose names are x and x.meta.json
\* ------------------------------------------------------------------------
UndoTree ==
  [parent |-> << 0, 0 >>, kind |-> << "file", "file" >>, unreadable |-> {}]

\* the name of each entry of UndoTree and of ThreeFiles
EntryName == << << "x" >>, << "x", ".meta.json" >>, << "y" >> >>

\* the path of entry e, as the trash helpers see it
PathOf(e) == InDir(EntryName[e])

\* the parent of an entry that is not in the directory any more
Gone == -1

\* filepath.Dir(p) of a path of the directory: the root the program shows
ParentDir(p) == IF p.at = "dir" THEN Root ELSE Gone


\* the tree os.ReadDir lists once the disk is d: the entries that exist
Listing(t, d) ==
  [t EXCEPT !.parent = [e \in DOMAIN t.parent |->
                          IF Exists(d, PathOf(e)) THEN Root ELSE Gone]]

\* number of scan sessions a run on UndoTree starts
UndoSessions == 2

\* m.undoWindow (30 s), in ticks of the clock
UndoWindow == 1

\* the clock stops after this many ticks
MaxNow == 2

\* the faults the keys meet: none, os.MkdirAll, os.Rename alone, os.Rename
\* and os.Stat
UndoFaults == { [k |-> 0, at |-> a] : a \in {"none", "mkdir", "rename", "stat"} }

\* History: the delete or undo key handled last.  called, whether
\* moveToTrash or restoreFromTrash was called; stack, m.trashHistory as the
\* key found it; expired, whether the undo window of its top had passed;
\* swallowed, whether the key was dropped by the modal or the loading switch
KeyCall(op, called, item, err, dst, expired, swallowed) ==
  [err |-> err, op |-> op, dst |-> dst, item |-> item, before |-> disk,
   called |-> called, expired |-> expired, swallowed |-> swallowed, stack |-> trash.history]

\* History: at time t the item was deleted longer ago than the window
TooOld(ti, t) == t - ti.deletedAt > UndoWindow

\* "check undo window": m.undoWindow > 0 && time.Since(ti.DeletedAt) > m.undoWindow
ExpiredNever(ti, t) == FALSE
Expired(ti, t) == UndoWindow > 0 /\ t - ti.deletedAt > UndoWindow

\* "peek last": m.trashHistory[len(m.trashHistory)-1]
TopOldest(s) == s[1]
Top(s) == s[Len(s)]

\* s[:len(s)-1]
Pop(s) == SubSeq(s, 1, Len(s) - 1)

\* what the delete and undo keys leave alone, whatever they do
keyFrame == << threads, followSymlinks, ctxDone, maxSess, chanCap, sumVars, pureVars, scanVars,
               inbox, flushTimers, forced, minElapsed, quit, xdev, now >>

\* what they leave alone when they start no scan and change no node
viewFrame == << fsys, memVars, m, sess, readers, tbl, disk, nsfx, shown >>

\* Update(tea.KeyMsg "d") with the cursor on row i: open the modal
keyDelete(i) ==
  /\ ~quit /\ ~trash.confirmDelete /\ ~KeysSwallowed(m)
  /\ m.current # Nil
  /\ i \in 1..Len(heap[m.current].children)
  /\ trash' = [trash EXCEPT !.confirmDelete = TRUE,
                            !.deletePath = heap[heap[m.current].children[i]].path,
                            !.status = "Delete?"]
  /\ last' = KeyEvent("d", TRUE)
  /\ tlast' = NoCall
  /\ UNCHANGED << keyFrame, viewFrame >>

\* Update(tea.KeyMsg) in the modal: left/h, right/l, tab move the focus
modalFocus(k) ==
  /\ ~quit /\ trash.confirmDelete
  /\ trash' = [trash EXCEPT !.confirmFocus =
                 IF k = "left" THEN 0 ELSE IF k = "right" THEN 1 ELSE (@ + 1) % 2]
  /\ last' = KeyEvent(k, TRUE)
  /\ tlast' = NoCall
  /\ UNCHANGED << keyFrame, viewFrame >>

\* Update(tea.KeyMsg "esc") in the modal, and Enter with the focus on "no"
modalCancel(k) ==
  /\ ~quit /\ trash.confirmDelete
  /\ k = "enter" => trash.confirmFocus # 0
  /\ trash' = [trash EXCEPT !.confirmDelete = FALSE, !.deletePath = NoPath,
                            !.status = IF k = "enter" THEN "Canceled" ELSE ""]
  /\ last' = KeyEvent(k, TRUE)
  /\ tlast' = NoCall
  /\ UNCHANGED << keyFrame, viewFrame >>

\* the children of node n that are kept: those whose Path is not p
RECURSIVE keptChildren(_, _, _)
keptChildren(h, childs, p) ==
  IF childs = << >> THEN << >>
  ELSE IF h[Head(childs)].path = p THEN keptChildren(h, Tail(childs), p)
  ELSE << Head(childs) >> \o keptChildren(h, Tail(childs), p)

\* Update(tea.KeyMsg "enter") in the modal with the focus on "yes":
\* moveToTrash(m.deletePath); on success push the item, drop the child from
\* the live node, recompute its totals, cache.Store, setTableRowsFromNode
modalConfirm(f) ==
  /\ ~quit /\ trash.confirmDelete /\ trash.confirmFocus = 0
  /\ trash.deletePath # NoPath
  /\ nsfx < Len(Suffixes)
  /\ LET p == trash.deletePath
         r == moveToTrash(disk, PathOf(p), f, xdev, uniqueSuffix(nsfx + 1), now)
         parent == CurPath(m)
     IN  /\ disk' = r.disk
         /\ fsys' = Listing(fsys, r.disk)
         /\ nsfx' = IF r.drew THEN nsfx + 1 ELSE nsfx
         /\ tlast' = KeyCall("delete", TRUE, r.item, r.err, r.item.trashPath, FALSE, FALSE)
         /\ IF r.err
              THEN /\ trash' = [trash EXCEPT !.confirmDelete = FALSE, !.deletePath = NoPath,
                                             !.status = "Delete failed"]
                   /\ UNCHANGED << memVars, tbl >>
              ELSE IF m.current # Nil /\ heap[m.current].path = parent
                THEN LET kids == keptChildren(heap, heap[m.current].children, p)
                         t == liveTotals(heap, kids, ZeroTotals)
                         h1 == [heap EXCEPT ![m.current] =
                                  [@ EXCEPT !.children = kids, !.size = t.size,
                                            !.files = t.files, !.dirs = t.dirs]]
                         c1 == CacheStore(cache, parent, m.current)
                         rows == setTableRowsFromNode(h1, m.current, m.loading)
                     IN  /\ cache' = c1
                         /\ heap' = Collect(rows.heap, RootsOf(m, c1, sess, inbox, forced))
                         /\ tbl' = rows.tbl
                         /\ trash' = [trash EXCEPT !.confirmDelete = FALSE,
                                                   !.deletePath = NoPath,
                                                   !.history = Append(@, r.item),
                                                   !.status = "Deleted"]
                ELSE /\ trash' = [trash EXCEPT !.confirmDelete = FALSE,
                                               !.deletePath = NoPath,
                                               !.history = Append(@, r.item),
                                               !.status = "Deleted (refresh available)"]
                     /\ UNCHANGED << memVars, tbl >>
  /\ last' = KeyEvent("enter", TRUE)
  /\ UNCHANGED << keyFrame, m, sess, readers, shown >>

\* Update(tea.KeyMsg "u") dropped: the modal is open ("swallow all other
\* keys") or a scan is loading ("swallow any other key while loading")
keyUndoSwallowed ==
  /\ ~quit
  /\ trash.confirmDelete \/ KeysSwallowed(m)
  /\ last' = KeyEvent("u", FALSE)
  /\ tlast' = KeyCall("undo", FALSE, NoItem, FALSE, NoItem.origPath,
                      trash.history # << >> /\ TooOld(Top(trash.history), now), TRUE)
  /\ UNCHANGED << keyFrame, viewFrame, trash >>

\* Update(tea.KeyMsg "u"): nothing to restore; or the window of the top item
\* has passed and it is dropped; or restoreFromTrash(ti), which on success
\* pops the item and rescans the displayed directory
keyUndo(f) ==
  /\ ~quit /\ ~trash.confirmDelete /\ ~KeysSwallowed(m)
  /\ last' = KeyEvent("u", TRUE)
  /\ IF trash.history = << >>
       THEN /\ trash' = [trash EXCEPT !.status = "Nothing to restore"]
            /\ tlast' = KeyCall("undo", FALSE, NoItem, FALSE, NoItem.origPath, FALSE, FALSE)
            /\ UNCHANGED viewFrame
     ELSE LET ti == Top(trash.history) IN
       IF Expired(ti, now)
         THEN /\ trash' = [trash EXCEPT !.status = "Undo window expired",
                                        !.history = Pop(@)]
              /\ tlast' = KeyCall("undo", FALSE, ti, FALSE, ti.origPath, TooOld(ti, now), FALSE)
              /\ UNCHANGED viewFrame
       ELSE /\ nsfx < Len(Suffixes)
            /\ LET r == restoreFromTrash(disk, ti, f, xdev, uniqueSuffix(nsfx + 1))
                   parent == heap[m.current].path
               IN  /\ disk' = r.disk
                   /\ fsys' = Listing(fsys, r.disk)
                   /\ nsfx' = IF r.drew THEN nsfx + 1 ELSE nsfx
                   /\ tlast' = KeyCall("undo", TRUE, ti, r.err, r.dst, TooOld(ti, now), FALSE)
                   /\ IF r.err
                        THEN /\ trash' = [trash EXCEPT !.status = "Restore failed"]
                             /\ UNCHANGED << memVars, m, sess, readers, tbl, shown >>
                        ELSE IF m.current # Nil /\ ParentDir(ti.origPath) = parent
                          THEN LET c1 == CacheDelete(cache, parent)
                                   mm == [m EXCEPT !.loading = TRUE]
                               IN  /\ Len(sess) < maxSess
                                   /\ trash' = [trash EXCEPT !.history = Pop(@),
                                                  !.status = "Restored - refreshing view"]
                                   /\ cache' = c1
                                   /\ startIncrementalScan(mm, c1, parent, "u")
                                   /\ heap' = Collect(heap, RootsOf(mm, c1, sess, inbox, forced))
                                   /\ shown' = FALSE
                                   /\ UNCHANGED tbl
                          ELSE /\ trash' = [trash EXCEPT !.history = Pop(@),
                                                         !.status = "Restored"]
                               /\ UNCHANGED << memVars, m, sess, readers, tbl, shown >>
  /\ UNCHANGED keyFrame

\* the clock advances
clockTick ==
  /\ now < MaxNow
  /\ now' = now + 1
  /\ UNCHANGED << envVars, sumVars, pureVars, memVars, scanVars, tuiVars, disk, xdev, nsfx, trash, tlast >>

\* the state after initialModel and m.Init() on UndoTree, whose files exist
InitUndo ==
  /\ RunOn(UndoTree, UndoSessions, ChanCap)
  /\ disk = [p \in { PathOf(e) : e \in EntriesOf(UndoTree) } |-> File("a")]
  /\ xdev = FALSE
  /\ nsfx = 0 /\ now = 0
  /\ trash = NewTrash
  /\ tlast = NoCall

NextUndo ==
  \/ \E s \in Sessions : sessStart(s)
  \/ \E s \in Sessions : sessEntry(s)
  \/ \E s \in Sessions : sessAggregate(s)
  \/ \E s \in Sessions : sessSendDone(s)
  \/ \E s \in Sessions : sessExit(s)
  \/ \E s \in Sessions : readerRecv(s)
  \/ \E msg \in inbox : UpdateChildUpdate(msg)
  \/ \E msg \in inbox : UpdateScanDone(msg)
  \/ \E msg \in forced : UpdateForced(msg)
  \/ UpdateFlush
  \/ UpdateLoadingTick
  \/ timePasses
  \/ clockTick
  \/ \E i \in EntriesOf(UndoTree) : keyDelete(i)
  \/ \E k \in {"left", "right", "tab"} : modalFocus(k)
  \/ \E k \in {"esc", "enter"} : modalCancel(k)
  \/ \E f \in UndoFaults : modalConfirm(f)
  \/ keyUndoSwallowed
  \/ \E f \in UndoFaults : keyUndo(f)

SpecUndo == InitUndo /\ [][NextUndo]_vars

\* ------------------------------------------------------------------------
\* The same program on ThreeFiles: the root holds the files 1, 2 and 3,
\* whose names are x, x.meta.json and y; one scan session, no fault
\* ------------------------------------------------------------------------
ThreeFiles ==
  [parent |-> << 0, 0, 0 >>, kind |-> << "file", "file", "file" >>, unreadable |-> {}]

\* number of scan sessions a run on ThreeFiles starts
ThreeSessions == 1

\* every call of the file system succeeds
NoFaults == { [k |-> 0, at |-> "none"] }

InitThree ==
  /\ RunOn(ThreeFiles, ThreeSessions, ChanCap)
  /\ disk = [p \in { PathOf(e) : e \in EntriesOf(ThreeFiles) } |-> File("a")]
  /\ xdev = FALSE
  /\ nsfx = 0 /\ now = 0
  /\ trash = NewTrash
  /\ tlast = NoCall

NextThree ==
  \/ \E s \in Sessions : sessStart(s)
  \/ \E s \in Sessions : sessEntry(s)
  \/ \E s \in Sessions : sessAggregate(s)
  \/ \E s \in Sessions : sessSendDone(s)
  \/ \E s \in Sessions : sessExit(s)
  \/ \E s \in Sessions : readerRecv(s)
  \/ \E msg \in inbox : UpdateChildUpdate(msg)
  \/ \E msg \in inbox : UpdateScanDone(msg)
  \/ \E msg \in forced : UpdateForced(msg)
  \/ UpdateFlush
  \/ UpdateLoadingTick
  \/ timePasses
  \/ clockTick
  \/ \E i \in EntriesOf(ThreeFiles) : keyDelete(i)
  \/ \E k \in {"left", "right", "tab"} : modalFocus(k)
  \/ \E k \in {"esc", "enter"} : modalCancel(k)
  \/ \E f \in NoFaults : modalConfirm(f)
  \/ keyUndoSwallowed
  \/ \E f \in NoFaults : keyUndo(f)

SpecThree == InitThree /\ [][NextThree]_vars

\* ------------------------------------------------------------------------
\* Claims about Scanner.sumDir (checked under SpecSum)
\* ------------------------------------------------------------------------
RegularFiles(t) == { e \in EntriesOf(t) : t.kind[e] = "file" }
Directories(t) == { e \in EntriesOf(t) : t.kind[e] = "dir" }
Symlinks(t) == { e \in EntriesOf(t) : t.kind[e] = "symlink" }

\* the walkers that hold an admission slot: acquired and not yet released
SlotHolders == { d \in 1..MaxEntries : walkPc[d] \in {"check", "loop", "release"} }

\* C1: on a fully readable tree, without cancellation and without following
\* symlinks, sumDir returns size = the sum of the sizes of all regular files
\* under root, files = their number, dirs = the number of directories strictly
\* below root, for every worker bound and interleaving; symlinks add nothing.
C1_SumDirExactTotals ==
  (sumPc = "done" /\ ~ctxDone /\ fsys.unreadable = {} /\ ~followSymlinks)
    => /\ res.size = SumSet(RegularFiles(fsys))
       /\ res.files = Cardinality(RegularFiles(fsys))
       /\ res.dirs = Cardinality(Directories(fsys))

\* a returned call on a tree with a nested regular file, a nested directory
\* and a symlink
C1_Witness ==
  /\ sumPc = "done" /\ ~ctxDone /\ fsys.unreadable = {} /\ ~followSymlinks
  /\ Symlinks(fsys) # {}
  /\ \E f \in RegularFiles(fsys) : fsys.parent[f] # Root
  /\ res.size > 0

\* C7: at every instant the number of subdirectory walks that hold an
\* admission slot is at most W = max(1, threads), whatever the fan-out or
\* depth; the sem channel holds exactly one token per such walk.
C7_AdmissionBound ==
  /\ Cardinality(SlotHolders) <= maxvalue(1, threads)
  /\ sem = Cardinality(SlotHolders)

\* the gate is full while another subdirectory goroutine waits for a slot,
\* one of the holders being a nested directory
C7_Witness ==
  /\ Cardinality(SlotHolders) = maxvalue(1, threads)
  /\ \E d \in 1..MaxEntries : walkPc[d] = "acquire"
  /\ \E d \in SlotHolders : fsys.parent[d] # Root

\* ------------------------------------------------------------------------
\* Claims about Scanner.scanDir (checked under SpecScan)
\* ------------------------------------------------------------------------
RECURSIVE PathsOf(_, _)
PathsOf(h, refs) ==
  IF refs = << >> THEN << >> ELSE << h[Head(refs)].path >> \o PathsOf(h, Tail(refs))

SeqRange(q) == { q[i] : i \in 1..Len(q) }

ImmediateEntries(t, p) == { e \in EntriesOf(t) : t.parent[e] = p }
ImmediateDirs(t, p) == { e \in ImmediateEntries(t, p) : t.kind[e] = "dir" }

\* size and files equal sumDir's, dirs is sumDir's minus the immediate
\* child directories
ScanTotalsMatchSumDir(n) ==
  LET sd == walkTotals(fsys, Root, followSymlinks) IN
  /\ n.scanned
  /\ n.size = sd.size
  /\ n.files = sd.files
  /\ n.dirs = sd.dirs - Cardinality(ImmediateDirs(fsys, Root))

\* C2 as stated: on a readable tree, from an empty cache, scanDir(root)
\* returns a scanned node whose children are exactly the immediate
\* non-symlink entries of root, with Size and Files equal to sumDir(root)'s
\* and Dirs equal to sumDir(root).dirs minus the immediate child directories.
C2_AsStated ==
  (scanPc = "done" /\ fsys.unreadable = {})
    => /\ ScanTotalsMatchSumDir(heap[scanRet])
       /\ SeqRange(PathsOf(heap, heap[scanRet].children))
            = { e \in ImmediateEntries(fsys, Root) : ~IsSymlink(fsys, e) }

\* C2 amended: the children are the immediate entries that are not skipped,
\* in listing order: the non-symlink entries when symlink following is
\* disabled, all immediate entries when it is enabled; the totals are as
\* stated.
C2_ScanDirMatchesSumDir ==
  (scanPc = "done" /\ fsys.unreadable = {})
    => /\ ScanTotalsMatchSumDir(heap[scanRet])
       /\ PathsOf(heap, heap[scanRet].children)
            = SortedSeq({ e \in ImmediateEntries(fsys, Root) :
                            ~SkipEntry(fsys, e, followSymlinks) })
       /\ cache[Root] = scanRet

\* scanDir has returned for a tree with a directory nested in a child
\* directory, so Dirs differs from sumDir's count
C2_Witness ==
  /\ scanPc = "done" /\ fsys.unreadable = {}
  /\ \E d \in ImmediateDirs(fsys, Root) : ImmediateDirs(fsys, d) # {}
  /\ heap[scanRet].dirs = 1
  /\ heap[scanRet].files = 1

\* ------------------------------------------------------------------------
\* Claims about the scan sessions and model.Update (checked under Spec)
\* ------------------------------------------------------------------------
\* the displayed live node: m.current, its fields and those of its children
LiveView(mm, h) ==
  IF mm.current = Nil THEN << Nil >>
  ELSE << mm.current, h[mm.current],
          [i \in 1..Len(h[mm.current].children) |-> h[h[mm.current].children[i]]] >>

\* C3: handling a ChildUpdate, a ScanDone or the delayed forced-completion
\* message whose token differs from the active scan token leaves the
\* displayed live node unchanged: the node, its path, children, size, files,
\* dirs and scanned flag are the same before and after the step.
C3_StaleEventsLeaveLiveNode ==
  [][(last'.op \in {"ChildUpdate", "ScanDone", "Forced"} /\ last'.stale)
       => LiveView(m', heap') = LiveView(m, heap)]_vars

\* a ChildUpdate of an earlier session has just been handled while a later
\* session is the active one and is still sending
C3_Witness ==
  /\ last.op = "ChildUpdate" /\ last.stale
  /\ last.token < m.scanToken
  /\ m.current # Nil
  /\ sess[m.scanToken].pc # "done"

\* the entries of the target path of session s that are directories
SessDirs(s) == { e \in ImmediateDirs(fsys, sess[s].path) : ~SkipEntry(fsys, e, followSymlinks) }

\* C4: a session enqueues at most one ScanDone, and only after every
\* ChildUpdate of the session: when it is enqueued the listing loop is over
\* and every directory worker has sent its final ChildUpdate and joined; no
\* ChildUpdate is enqueued after it; a ScanDone still in the queue is its last
\* element; the queue is closed only after the ScanDone, and a finished
\* session has enqueued exactly one ScanDone and closed its queue.
C4_OneScanDoneLast ==
  \A s \in Sessions :
    /\ sess[s].nDone <= 1
    /\ ~sess[s].late
    /\ sess[s].nDone = 1 =>
         /\ sess[s].pc \in {"exit", "done"}
         /\ \A e \in EntriesOf(fsys) : sess[s].worker[e] \in {"none", "done"}
         /\ \A e \in SessDirs(s) : sess[s].listed => sess[s].cu[e] = 2
    /\ \A i \in 1..Len(sess[s].buf) :
         sess[s].buf[i].type = "ScanDone" => i = Len(sess[s].buf)
    /\ sess[s].closed => sess[s].nDone = 1
    /\ sess[s].pc = "done" => sess[s].closed /\ sess[s].nDone = 1

\* a session that listed a directory entry has finished and its queue has
\* been drained by the consumer
C4_Witness ==
  \E s \in Sessions :
    /\ sess[s].pc = "done" /\ sess[s].buf = << >> /\ sess[s].nDone = 1
    /\ SessDirs(s) # {}
    /\ \A e \in SessDirs(s) : sess[s].cu[e] = 2

\* C5 as stated, the part the consumer observes: the first ChildUpdate of a
\* directory entry carries the in-progress sentinel size when the consumer
\* handles it.
C5_FirstUpdateShowsSentinel ==
  (last.op = "ChildUpdate" /\ last.phase = 1 /\ IsDir(fsys, last.ref[2]))
    => last.seen = Sentinel

\* C6 as stated: a session started by Enter or Backspace for a path whose
\* cache entry is fully scanned takes the fast path: it lists no directory
\* and sends no ChildUpdate.
C6_RevisitTakesFastPath ==
  \A s \in Sessions :
    (sess[s].via \in {"enter", "backspace"} /\ sess[s].hit)
      => /\ ~sess[s].listed
         /\ \A e \in EntriesOf(fsys) : sess[s].cu[e] = 0

\* the directory workers of session s that are computing sumDir
Computing(s) == { e \in EntriesOf(fsys) : sess[s].worker[e] = "sum" }

\* C8 as stated: at no instant are more than W = max(1, threads) of a
\* session's directory workers computing their totals concurrently.
C8_SessionWorkersBounded ==
  \A s \in Sessions : Cardinality(Computing(s)) <= maxvalue(1, threads)

\* C9: at most one flush timer is outstanding at any time and the debounce
\* flag is set exactly while one is; a ChildUpdate schedules a timer only if
\* none is scheduled; a flush clears the pending flag, and publishes (sets
\* the rows, sorting the children) only if the pending flag was set.
C9_DebounceCoalesces ==
  /\ [](/\ flushTimers <= 1
        /\ m.debounceActive <=> flushTimers = 1
        /\ m.pendingUpdates => m.debounceActive)
  /\ [][/\ flushTimers' > flushTimers => flushTimers = 0 /\ last'.op = "ChildUpdate"
        /\ flushTimers' < flushTimers =>
             /\ ~m'.pendingUpdates /\ ~m'.debounceActive
             /\ ~m.pendingUpdates => (tbl' = tbl /\ heap' = heap)]_vars

\* a second ChildUpdate of the active session has been handled while the
\* flush timer of an earlier one is still outstanding
C9_Witness ==
  /\ last.op = "ChildUpdate" /\ ~last.stale
  /\ flushTimers = 1
  /\ m.current # Nil /\ Len(heap[m.current].children) >= 2

\* C10 as stated: a navigation key pressed while a session is still running
\* is accepted.
C10_AcceptedWhileRunning ==
  (last.op = "Key" /\ last.busy) => last.accepted

\* C10 amended: a navigation key is accepted only while loading is false,
\* which it never is while a session goroutine is still running, so at most
\* the newest session runs; an accepted key immediately replaces the live
\* node by an empty placeholder for the new path, starts a new session and
\* makes its token the active one; a key pressed while loading changes
\* nothing.
C10_NavigationWaitsForLoading ==
  /\ [](/\ SessionRunning => m.loading
        /\ \A s \in Sessions : s < Len(sess) => sess[s].pc = "done"
        /\ (last.op = "Key" /\ last.busy) => ~last.accepted
        /\ (last.op = "Key" /\ last.accepted) =>
             /\ m.scanToken = Len(sess) /\ m.scanCh = Len(sess)
             /\ sess[Len(sess)].pc = "start"
             /\ sess[Len(sess)].path = CurPath(m)
             /\ m.current = Ref(Len(sess), NavSlot)
             /\ heap[m.current].path = CurPath(m)
             /\ heap[m.current].children = << >>
             /\ m.loading)
  /\ [][(last'.op = "Key" /\ ~last'.accepted) =>
          UNCHANGED << m, heap, cache, sess, readers, inbox, tbl >>]_vars

\* a second session was started by an accepted key and a further key has
\* been swallowed while that session is running
C10_Witness ==
  /\ Len(sess) >= 2
  /\ last.op = "Key" /\ last.busy /\ ~last.accepted
  /\ sess[Len(sess)].via \in {"enter", "backspace", "r"}

\* ------------------------------------------------------------------------
\* Claims checked under SpecLive
\* ------------------------------------------------------------------------
\* session s has run to completion: ScanDone enqueued, queue closed
Completed(s) == sess[s].pc = "done" /\ sess[s].closed /\ sess[s].nDone = 1

Restored == tlast.op = "restoreFromTrash" /\ ~tlast.err

\* C12: when restoreFromTrash succeeds on an item a successful moveToTrash
\* returned, the original path (or that path plus a unique suffix if it was
\* occupied) holds exactly what was moved, nothing is left at the item's
\* trash path, and no sidecar trash path + ".meta.json" is left
C12_RoundTripLeavesNoTrace ==
  Restored =>
    LET ti == tlast.item IN
    /\ tlast.dst = IF Exists(tlast.before, ti.origPath)
                     THEN Plus(ti.origPath, uniqueSuffix(nsfx))
                     ELSE ti.origPath
    /\ Exists(disk, tlast.dst) /\ disk[tlast.dst] = ti.was
    /\ ~Exists(disk, ti.trashPath)
    /\ ~Exists(disk, MetaPath(ti.trashPath))

\* C15: whenever moveToTrash or restoreFromTrash returns an error, the disk
\* is as the call found it: the source is complete at its place and nothing
\* was made at the destination
C15_ErrorLeavesDiskUnchanged ==
  (tlast.op \in {"moveToTrash", "restoreFromTrash"} /\ tlast.err) => disk = tlast.before

\* ------------------------------------------------------------------------
\* Claims about the undo key (checked under SpecUndo)
\* ------------------------------------------------------------------------
\* the u key was pressed last, with a top item older than the undo window
UndoOfExpired == tlast.op = "undo" /\ tlast.stack # << >> /\ tlast.expired

\* C13 as stated: an undo requested when the top item is older than the
\* undo window reports "Nothing to restore", does not call restoreFromTrash,
\* leaves the disk unchanged and discards the item from the stack
C13_AsStated ==
  UndoOfExpired =>
    /\ trash.status = "Nothing to restore"
    /\ ~tlast.called
    /\ disk = tlast.before
    /\ trash.history = Pop(tlast.stack)

\* C13: the u key handled while no scan is loading and no delete modal is
\* open, with a top item older than the undo window, reports "Undo window
\* expired", does not call restoreFromTrash, leaves the disk unchanged (the
\* item stays in the trash directory) and discards the item from the stack;
\* while loading or in the modal the key is swallowed and the stack and the
\* disk stay as they are
C13_ExpiredItemIsDropped ==
  UndoOfExpired =>
    /\ ~tlast.called
    /\ disk = tlast.before
    /\ IF tlast.swallowed
         THEN trash.history = tlast.stack
         ELSE /\ trash.status = "Undo window expired"
              /\ trash.history = Pop(tlast.stack)

\* an expired top item was dropped by the u key while an older item and the
\* trashed entry itself are still there
C13_Witness ==
  /\ UndoOfExpired /\ ~tlast.swallowed
  /\ Len(tlast.stack) = 2
  /\ trash.history = Pop(tlast.stack)
  /\ Exists(disk, tlast.item.trashPath)

\* C14: when the u key calls restoreFromTrash within the undo window and the
\* call fails, the item is off the stack afterwards and the error is shown,
\* so that the next undo acts on the next older item
C14_FailedRestorePopsItem ==
  (tlast.op = "undo" /\ tlast.called /\ tlast.err) =>
    /\ trash.status = "Restore failed"
    /\ trash.history = Pop(tlast.stack)

\* ------------------------------------------------------------------------
\* Claims about a scan of a path that cannot be listed (checked under
\* SpecDenied)
\* ------------------------------------------------------------------------
\* the sessions whose target path cannot be listed
DeniedSess == { s \in Sessions : sess[s].path \in fsys.unreadable }

\* the messages of session s that exist: queued, delivered or deferred
MessagesOf(s) ==
  { sess[s].buf[i] : i \in 1..Len(sess[s].buf) }
    \cup { x \in inbox \cup forced : x.token = s }

\* session s was started on a path that cannot be listed
DeniedStarted(s) == IF s \in Sessions THEN sess[s].path \in fsys.unreadable ELSE FALSE

\* that session has returned: one ScanDone was sent and the queue is closed
DeniedEnded(s) == IF s \in Sessions THEN s \in DeniedSess /\ Completed(s) ELSE FALSE

\* C16: a session whose target path cannot be listed sends no ChildUpdate
\* and exactly one ScanDone, whose node is for that path with the error set,
\* Scanned = true and no children; the session terminates and closes its
\* queue
C16_UnlistableTargetYieldsOneScanDone ==
  /\ [](\A s \in DeniedSess :
          /\ \A e \in EntriesOf(fsys) : sess[s].cu[e] = 0
          /\ ~sess[s].listed
          /\ sess[s].nDone = IF sess[s].pc = "start" THEN 0 ELSE 1
          /\ \A x \in MessagesOf(s) :
                /\ x.type = "ScanDone"
                /\ heap[x.ref].path = sess[s].path
                /\ heap[x.ref].err # NoErr
                /\ heap[x.ref].scanned
                /\ heap[x.ref].children = << >>)
  /\ \A s \in 1..DeniedSessions : DeniedStarted(s) ~> DeniedEnded(s)

\* the failure was delivered: Update handled the ScanDone of a session whose
\* target cannot be listed, after the session closed its queue
C16_Witness ==
  /\ last.op = "ScanDone"
  /\ last.token \in DeniedSess
  /\ sess[last.token].closed
  /\ heap[last.ref].err # NoErr
  /\ m.current = last.ref

\* ------------------------------------------------------------------------
\* Claims about error handling in scanDir and sumDir
\* ------------------------------------------------------------------------
\* C17: when the root path given to scanDir cannot be listed, scanDir
\* returns a node for that path with the error set, Scanned = true and no
\* children (checked under SpecScan)
C17_UnlistableRootIsScanned ==
  (scanPc = "done" /\ Root \in fsys.unreadable) =>
    /\ heap[scanRet].path = Root
    /\ heap[scanRet].err # NoErr
    /\ heap[scanRet].scanned
    /\ heap[scanRet].children = << >>

\* the directories under root that sumDir can list: readable, and so is
\* every directory above them
Listable(t) == walkReaches(t, Root) \ t.unreadable

\* the directories sumDir fails to read
Unlistable(t) == walkReaches(t, Root) \cap t.unreadable

\* C18: if some directories under root cannot be read (no cancellation, no
\* following of symlinks), sumDir still returns size and files over every
\* file of every directory it can list, dirs over every directory entry of
\* those directories, the unreadable ones included, and a non-nil error
\* (checked under SpecSum)
C18_PartialTotalsWithError ==
  (sumPc = "done" /\ ~ctxDone /\ ~followSymlinks /\ Unlistable(fsys) # {}) =>
    LET seenFiles == { e \in RegularFiles(fsys) : fsys.parent[e] \in Listable(fsys) }
        seenDirs == { e \in Directories(fsys) : fsys.parent[e] \in Listable(fsys) }
    IN  /\ res.size = SumSet(seenFiles)
        /\ res.files = Cardinality(seenFiles)
        /\ res.dirs = Cardinality(seenDirs)
        /\ res.err # NoErr

\* sumDir returned after failing to read one directory while its sibling
\* directory, which holds a file, was counted
C18_Witness ==
  /\ sumPc = "done" /\ ~ctxDone /\ ~followSymlinks
  /\ \E d \in Unlistable(fsys) : \E d2 \in Listable(fsys) :
        /\ d # Root /\ d2 # Root /\ fsys.parent[d] = fsys.parent[d2]
        /\ \E e \in RegularFiles(fsys) : fsys.parent[e] = d2
  /\ res.files = 1 /\ res.dirs = 2 /\ res.err # NoErr


\* ------------------------------------------------------------------------
\* Claims about cancellation of a scan session
\* ------------------------------------------------------------------------
\* the messages session s has sent on its channel and that were not received
Enqueued(s) == Len(sess[s].buf)

\* C19: once m.cancel() has been called, no session sends a further
\* childUpdateMsg or scanDoneMsg, and no session stores a node in the cache
C19_CancelledSessionIsSilent ==
  [][ctxDone =>
       /\ \A s \in Sessions : Enqueued(s)' <= Enqueued(s)
       /\ cache' = cache]_vars


\* ------------------------------------------------------------------------
\* Claims about the -follow-symlinks flag
\* ------------------------------------------------------------------------
RECURSIVE IsBelow(_, _, _)
\* entry e lies in the subtree of directory d
IsBelow(t, e, d) ==
  e # Root /\ (t.parent[e] = d \/ IsBelow(t, t.parent[e], d))

\* the directories a symlink of t may point to: those that hold no symlink
\* (so that following ends)
LinkDirs(t) ==
  { d \in EntriesOf(t) :
      /\ IsDir(t, d)
      /\ \A e \in EntriesOf(t) : IsBelow(t, e, d) => ~IsSymlink(t, e) }

\* the ways the symlinks of t can each point to a directory of t
LinkTargets(t) == [ { e \in EntriesOf(t) : IsSymlink(t, e) } -> LinkDirs(t) ]

RECURSIVE followedTotals(_, _, _)
RECURSIVE followedEntries(_, _, _)

\* the totals below p when each symlink e stands for the contents of the
\* directory tg[e]; the link itself is not counted
followedTotals(t, p, tg) ==
  IF p \in t.unreadable THEN ZeroTotals ELSE followedEntries(t, ReadDir(t, p), tg)

followedEntries(t, ents, tg) ==
  IF ents = << >> THEN ZeroTotals
  ELSE LET e == Head(ents)
           rest == followedEntries(t, Tail(ents), tg)
       IN  IF IsSymlink(t, e) THEN AddTotals(walkTotals(t, tg[e], TRUE), rest)
           ELSE IF IsDir(t, e)
             THEN AddTotals([size |-> 0, files |-> 0, dirs |-> 1],
                            AddTotals(followedTotals(t, e, tg), rest))
             ELSE AddTotals([size |-> FileSize(e), files |-> 1, dirs |-> 0], rest)

\* C20: with followSymlinks set, sumDir recurses into a symlink that points
\* to a directory: whatever directory each link points to, the size and the
\* file count returned are those with the target's contents in the link's
\* place, and the directory count is at least that
C20_FollowedLinkAddsTargetTotals ==
  (sumPc = "done" /\ ~ctxDone /\ followSymlinks) =>
    \A tg \in LinkTargets(fsys) :
      LET f == followedTotals(fsys, Root, tg)
      IN  /\ res.size = f.size
          /\ res.files = f.files
          /\ res.dirs >= f.dirs


\* ------------------------------------------------------------------------
\* Claims about the Enter key
\* ------------------------------------------------------------------------
\* the rows of the live node: the indices of m.current.Children
Rows == IF m.current = Nil THEN {} ELSE 1..Len(heap[m.current].children)

\* the node of row i
RowNode(i) == heap[heap[m.current].children[i]]

\* C21: while the program is not loading, the Enter handler takes no row of
\* a directory for a plain file: Enter on it navigates into it
C21_EnterOpensEveryDirectory ==
  (~quit /\ ~m.loading) =>
    \A i \in Rows : IsDir(fsys, RowNode(i).path) => ~TakenForFile(RowNode(i))


\* ------------------------------------------------------------------------
\* Claims about the consumer: model.Update and scanReaderCmd
\* ------------------------------------------------------------------------
\* session s has returned after listing its directory, and the consumer has
\* handled every message it sent
AllHandled(s) ==
  /\ sess[s].pc = "done" /\ sess[s].listed
  /\ sess[s].buf = << >>
  /\ \A msg \in inbox : msg.token # s

\* C22: once every message of the active session has been handled, the
\* cache holds, for the session's path, the node the session stored and
\* sent in its scanDoneMsg, with Scanned set
C22_CacheHoldsFinalNode ==
  \A s \in Sessions :
    (s = m.scanToken /\ AllHandled(s)) =>
      /\ CacheHit(cache, sess[s].path)
      /\ cache[sess[s].path] = Ref(s, 0)
      /\ heap[cache[sess[s].path]].scanned


\* the children of the node the childUpdateMsg handler merges into: those of
\* m.current, or none when the handler first makes a placeholder
LiveKids ==
  IF m.current = Nil \/ heap[m.current].path # CurPath(m) THEN << >>
  ELSE heap[m.current].children

\* the positions of kids that hold a node with the given path
Holding(h, kids, path) == { i \in 1..Len(kids) : h[kids[i]].path = path }

RECURSIVE SumKids(_, _, _)
\* sum of field f over the nodes of kids, a negative size counting as 0
SumKids(h, kids, f) ==
  IF kids = << >> THEN 0
  ELSE LET v == h[Head(kids)][f]
       IN  (IF f = "size" /\ v < 0 THEN 0 ELSE v) + SumKids(h, Tail(kids), f)

\* no two children of the live node have the same path
NoSharedPath ==
  m.current # Nil =>
    \A i, j \in 1..Len(heap[m.current].children) :
      heap[heap[m.current].children[i]].path = heap[heap[m.current].children[j]].path => i = j

\* a step in which Update handles a childUpdateMsg of the active token
MergeStep ==
  /\ inbox' # inbox
  /\ last'.op = "ChildUpdate" /\ ~last'.stale

\* what such a step leaves: the message's node at the position of the child
\* with its path, or at the end; the other positions as they were; the
\* totals of the live node summed over its children
Merged ==
  LET ref == last'.ref
      path == heap[ref].path
      old == LiveKids
      new == heap'[m'.current].children
      at == Holding(heap, old, path)
  IN  /\ Holding(heap', new, path) # {}
      /\ \A i \in Holding(heap', new, path) : new[i] = ref
      /\ IF at # {} THEN new = [i \in 1..Len(old) |-> IF i \in at THEN ref ELSE old[i]]
                    ELSE new = Append(old, ref)
      /\ heap'[m'.current].size = SumKids(heap', new, "size")
      /\ heap'[m'.current].files = SumKids(heap', new, "files")
      /\ heap'[m'.current].dirs = SumKids(heap', new, "dirs")

Received(s) == { msg \in inbox : msg.token = s }

\* C24: at most one scanReaderCmd reads the active session's channel at any
\* time, so its messages are handled in the order they were sent: when
\* Update handles the scanDoneMsg no childUpdateMsg of the session is left
C24_OneReaderInOrder ==
  /\ readers[m.scanCh] + Cardinality(Received(m.scanCh)) <= 1
  /\ (last.op = "ScanDone" /\ ~last.stale) =>
       \A msg \in Received(last.token) : msg.type # "ChildUpdate"


\* ------------------------------------------------------------------------
\* Claims about the loading state
\* ------------------------------------------------------------------------
\* every session goroutine has run its deferred function, every message was
\* received and handled and no completion tick is pending: nothing more
\* will be delivered to Update but key presses and spinner ticks
Quiescent ==
  /\ \A s \in Sessions : sess[s].pc = "done" /\ sess[s].buf = << >>
  /\ inbox = {} /\ forced = {}

\* C25: with the scanDoneMsg of the active session handled and the session
\* goroutine's deferred function run, in either order, the model has left
\* the loading state
C25_LoadingEnds == Quiescent => ~m.loading


\* C26: whenever m.loading goes from true to false, loadingMinDuration has
\* passed since it last became true, however the scan was started
C26_LoadingShownMinDuration == [][(m.loading /\ ~m'.loading) => shown]_vars


\* ------------------------------------------------------------------------
\* Claims about the errors and the termination of Scanner.sumDir
\* ------------------------------------------------------------------------
\* the walk of directory d calls os.ReadDir in this step, and it fails
ReadFails(d) ==
  /\ walkPc[d] = "check" /\ walkPc'[d] # "check"
  /\ ~ctxDone /\ d \in fsys.unreadable

\* C27: the error sumDir holds for its result is that of the read that
\* failed last: each failed read replaces the error recorded before it
C27_LastErrorWins ==
  [][\A d \in 0..MaxEntries : ReadFails(d) => errs' = << d >>]_vars


\* the walk of d runs inside a worker that holds a slot of sem
HoldsSlot(d) == d # Root /\ walkPc[d] \in {"check", "loop", "release"}

\* the next step of the goroutine that walks d can be taken
CanStep(d) == ENABLED (walkEnter(d) \/ walkEntry(d) \/ workerRelease(d))

\* a walk that starts with the context cancelled returns without os.ReadDir:
\* it enters no loop and reports no read error
StartsCancelled(d) == walkPc[d] = "check" /\ ctxDone

\* C28: sumDir returns, for every tree and every -threads value (0 bounds
\* the workers by 1), whether or not the context is cancelled on the way;
\* a worker that holds a slot never waits; a walk that starts after the
\* cancellation reads no directory
C28_SumDirTerminates ==
  /\ <>(sumPc = "done")
  /\ [](\A d \in 0..MaxEntries : HoldsSlot(d) => CanStep(d))
  /\ [][\A d \in 0..MaxEntries :
          StartsCancelled(d) => (walkPc'[d] # "loop" /\ errs' = errs)]_vars

\* sumDir has returned with -threads 0 after a cancellation that kept a
\* worker from walking its directory
C28_Witness ==
  /\ sumPc = "done" /\ threads = 0 /\ ctxDone
  /\ \E d \in 1..MaxEntries : walkPc[d] = "done" /\ walkIdx[d] = 0
  /\ \E d \in 1..MaxEntries : walkPc[d] = "done" /\ walkIdx[d] > 0


\* ------------------------------------------------------------------------
\* Claims about the TrashItem and the destination of a restore
\* ------------------------------------------------------------------------
\* C29: when restoreFromTrash is called with something at the item's
\* original path, that entry is as it was afterwards, and a successful
\* restore has put the item at the original path plus a unique suffix
C29_RestoreNeverOverwrites ==
  (tlast.op = "restoreFromTrash" /\ Present(tlast.before, tlast.item.origPath)) =>
    LET orig == tlast.item.origPath
    IN  /\ Present(disk, orig) /\ disk[orig] = tlast.before[orig]
        /\ ~tlast.err => /\ tlast.dst = Plus(orig, uniqueSuffix(nsfx))
                         /\ Present(disk, tlast.dst)


\* C30: the TrashItem a successful moveToTrash returns names the path the
\* entry was at, the path in the trash that now holds it and the time of
\* the call, and its IsDir tells whether the entry was a directory
C30_TrashItemDescribesEntry ==
  (tlast.op = "moveToTrash" /\ ~tlast.err) =>
    LET ti == tlast.item
    IN  /\ Present(tlast.before, ti.origPath) /\ tlast.before[ti.origPath] = ti.was
        /\ ~Present(disk, ti.origPath)
        /\ ti.trashPath.at = "trash" /\ Present(disk, ti.trashPath)
        /\ ti.deletedAt = now - 1
        /\ ti.isDir <=> (ti.was.kind = "dir")


\* ------------------------------------------------------------------------
\* Claims about the confirmed delete (checked under SpecThree)
\* ------------------------------------------------------------------------
\* a step in which the "enter" key in the modal calls moveToTrash and the
\* call returns without an error
DeleteStep ==
  /\ trash.confirmDelete /\ ~trash'.confirmDelete
  /\ tlast'.op = "delete" /\ tlast'.called /\ ~tlast'.err

\* the children of the live node that stay: all but the one with path p,
\* in the order they had
Remaining(p) ==
  SelectSeq(heap[m.current].children, LAMBDA r : heap[r].path # p)

\* what such a step leaves when the deleted entry is a child of the live
\* node of the displayed path
Deleted ==
  LET p == trash.deletePath
      n == m.current
      kids == Remaining(p)
  IN  /\ trash'.history = Append(trash.history, tlast'.item)
      /\ heap'[n].children = kids
      /\ \A i \in 1..Len(kids) : heap'[kids[i]] = heap[kids[i]]
      /\ heap'[n].size = SumKids(heap', kids, "size")
      /\ heap'[n].files = SumKids(heap', kids, "files")
      /\ heap'[n].dirs = SumKids(heap', kids, "dirs")
      /\ CurPath(m) \in DOMAIN cache'
      /\ heap'[cache'[CurPath(m)]] = heap'[n]
      /\ m' = m /\ sess' = sess /\ inbox' = inbox /\ readers' = readers

\* C31: a confirmed delete of a child c of the displayed path that succeeds
\* pushes the returned item on the undo history, removes c from the
\* children of the live node with the other children and their order as
\* they were, makes the totals of the live node the sums over the children
\* that remain, stores the live node in the cache under the displayed path,
\* and starts no session: the token, the sessions, the message queue and
\* loading stay as they are
C31_DeleteUpdatesLiveNode ==
  [][(DeleteStep /\ m.current # Nil /\ Holding(heap, LiveKids, trash.deletePath) # {})
       => Deleted]_vars


\* ------------------------------------------------------------------------
\* Claims about m.trashHistory (checked under SpecUndo)
\* ------------------------------------------------------------------------
\* the key handled last was a confirmed delete whose moveToTrash returned nil
DeleteDone == tlast.op = "delete" /\ tlast.called /\ ~tlast.err

\* the key handled last was a u that called restoreFromTrash, which
\* returned nil
UndoDone == tlast.op = "undo" /\ tlast.called /\ ~tlast.err

\* the newest element of the history the key found, and the older ones
Newest(s) == s[Len(s)]
Older(s) == SubSeq(s, 1, Len(s) - 1)

\* the entries of the directory other than p are as the key found them
OthersKept(p) ==
  \A q \in (DOMAIN tlast.before \cup DOMAIN disk) \ {p} :
    q.at = "dir" => q \in DOMAIN tlast.before /\ q \in DOMAIN disk /\ disk[q] = tlast.before[q]

\* what the last key left of the history and of the directory
StackAfterKey ==
  /\ DeleteDone =>
       /\ trash.history = Append(tlast.stack, tlast.item)
       /\ tlast.item.was = tlast.before[tlast.item.origPath]
  /\ (tlast.op = "delete" /\ tlast.err) => trash.history = tlast.stack
  /\ (tlast.op = "undo" /\ ~tlast.swallowed /\ tlast.stack # << >>) =>
       /\ tlast.item = Newest(tlast.stack)
       /\ trash.history \in {tlast.stack, Older(tlast.stack)}
  /\ UndoDone =>
       /\ trash.history = Older(tlast.stack)
       /\ tlast.dst = tlast.item.origPath
       /\ Exists(disk, tlast.dst) /\ disk[tlast.dst] = tlast.item.was
       /\ ~Present(disk, tlast.item.trashPath)
       /\ OthersKept(tlast.dst)

\* a step that changes the history is a push of the item a delete returned
\* or a pop of the newest item by the u key
PushOrPop ==
  trash'.history # trash.history =>
    \/ /\ tlast'.op = "delete" /\ ~tlast'.err
       /\ trash'.history = Append(trash.history, tlast'.item)
    \/ /\ tlast'.op = "undo" /\ trash.history # << >>
       /\ tlast'.item = Newest(trash.history)
       /\ trash'.history = Older(trash.history)

\* C32: m.trashHistory is a LIFO stack over every sequence of deletes and
\* undos: a delete that succeeds pushes exactly the item it returned, a
\* failed one pushes nothing; the u key acts on the newest item of the
\* stack; an undo that succeeds removes exactly that item, puts exactly the
\* entry it names back at its original path and leaves the other entries of
\* the directory and the older items, in their order, as they were; nothing
\* else changes the stack
C32_UndoHistoryIsLIFO == []StackAfterKey /\ [][PushOrPop]_vars

\* an undo has succeeded on a stack of two items and left the older one
C32_Witness ==
  /\ UndoDone
  /\ Len(tlast.stack) = 2
  /\ trash.history = << tlast.stack[1] >>
  /\ Exists(disk, tlast.item.origPath)


\* ------------------------------------------------------------------------
\* Claims about the cache (checked under Spec)
\* ------------------------------------------------------------------------
RECURSIVE Value(_, _)
\* what a reader of node r sees: its fields and, in place of the pointers
\* of Children, what a reader of each child sees
Value(h, r) ==
  [h[r] EXCEPT !.children = [i \in 1..Len(h[r].children) |-> Value(h, h[r].children[i])]]

\* a step that calls neither cache.Store nor cache.Delete: not a handler of
\* a childUpdateMsg, of a scanDoneMsg or of a key, and not the step of a
\* session that stores its final node
NoStore ==
  /\ cache' = cache
  /\ last'.op \notin {"ChildUpdate", "ScanDone", "Key"}

\* C33: the cache does not alias the live tree: a step that does not store
\* or delete a cache entry (a worker that fills in the totals of a child, a
\* flush that refreshes the table) leaves what a lookup of every cached
\* path returns, children included, as it was
C33_CacheHoldsSnapshots ==
  [][NoStore => \A p \in DOMAIN cache : Value(heap', cache[p]) = Value(heap, cache[p])]_vars


\* ------------------------------------------------------------------------
\* Claims about aggregated nodes
\* ------------------------------------------------------------------------
RECURSIVE Total(_, _, _)
\* the sum of field f over the nodes of kids, each value taken as it is
Total(h, kids, f) ==
  IF kids = << >> THEN 0 ELSE h[Head(kids)][f] + Total(h, Tail(kids), f)

\* node r is the aggregate of its children, none of which is a placeholder
Aggregated(h, r) ==
  /\ h[r].size = Total(h, h[r].children, "size")
  /\ h[r].files = Total(h, h[r].children, "files")
  /\ h[r].dirs = Total(h, h[r].children, "dirs")
  /\ \A i \in 1..Len(h[r].children) : h[h[r].children[i]].size # Sentinel

\* the scanDoneMsgs that exist and were not sent by the fast path: each
\* carries the node its own session built
BuiltDone ==
  { x \in UNION { MessagesOf(s) : s \in Sessions } :
      x.type = "ScanDone" /\ x.ref = Ref(x.token, 0) }

StaleDone ==
  /\ inbox' # inbox
  /\ last'.op = "ScanDone" /\ last'.stale

\* what such a step leaves: the cache with the message's node under the
\* node's own path and every other entry as it was; the model struct, the
\* live node and the table rows as they were; no tick or session started
StoredOnly ==
  LET ref == last'.ref
      path == heap[ref].path
  IN  /\ DOMAIN cache' = DOMAIN cache \cup {path}
      /\ cache'[path] = ref
      /\ \A q \in DOMAIN cache \ {path} : cache'[q] = cache[q]
      /\ heap'[ref] = heap[ref]
      /\ m' = m
      /\ LiveView(m', heap') = LiveView(m, heap)
      /\ tbl' = tbl
      /\ forced' = forced /\ flushTimers' = flushTimers /\ sess' = sess

\* C35: when Update handles a scanDoneMsg whose token is not the active
\* one, the message's node is stored in the cache under its own path and
\* nothing else changes: the live node, m.loading, m.scanToken and the
\* table rows are as they were
C35_StaleScanDoneIsOnlyCached == [][StaleDone => StoredOnly]_vars

\* the scanDoneMsg of an earlier session was handled while a later session
\* is the active one; the cache holds its node and the live node is another
C35_Witness ==
  /\ last.op = "ScanDone" /\ last.stale
  /\ last.token < m.scanToken
  /\ cache[heap[last.ref].path] = last.ref
  /\ m.current # Nil /\ m.current # last.ref


\* ------------------------------------------------------------------------
\* Claims about the number of sessions
\* ------------------------------------------------------------------------
\* the sessions whose goroutine has not yet run its deferred function
InFlight == { s \in Sessions : sess[s].pc # "done" }

\* at most one goroutine is in flight, m.loading is false only when none
\* is, and m.ongoingScans is 0 or 1
OneSession ==
  /\ Cardinality(InFlight) <= 1
  /\ ~m.loading => InFlight = {}
  /\ (last.op = "Key" /\ last.busy) => ~last.accepted
  /\ m.ongoingScans \in {0, 1}

\* C36: at most one scan session goroutine is in flight: a key starts a
\* session only while m.loading is false, m.loading is false only when no
\* session goroutine is still running, m.ongoingScans is always 0 or 1, and
\* every childUpdateMsg and scanDoneMsg that Update handles carries the
\* active token
C36_OneSessionActiveToken ==
  /\ OneSession
  /\ last.op \in {"ChildUpdate", "ScanDone", "Forced"} => ~last.stale


\* ------------------------------------------------------------------------
\* Claims about the debounce of the table refresh (checked under SpecFlush)
\* ------------------------------------------------------------------------
\* a merged childUpdateMsg waits for its refresh only while the debounce
\* flag is set and a flush timer is outstanding
PendingHasTimer == m.pendingUpdates => (m.debounceActive /\ flushTimers = 1)

\* the pending flag is cleared only by a flushUpdatesMsg, whose handler
\* sets the table rows from the live node
ClearedByFlush ==
  (m.pendingUpdates /\ ~m'.pendingUpdates) =>
    /\ last'.op = "Flush" /\ last'.published
    /\ tbl' = setTableRowsFromNode(heap, m.current, m.loading).tbl

\* C37: m.pendingUpdates implies m.debounceActive with a flush timer
\* outstanding, and every childUpdateMsg merged into the live node is
\* published by a later flush: the pending flag does not stay set forever
C37_PendingIsFlushed ==
  /\ []PendingHasTimer
  /\ [][ClearedByFlush]_vars
  /\ (m.pendingUpdates ~> ~m.pendingUpdates)

\* a flush has published the children merged since the last refresh
C37_Witness ==
  /\ last.op = "Flush" /\ last.published
  /\ ~m.pendingUpdates /\ ~m.debounceActive /\ flushTimers = 0
  /\ m.current # Nil /\ Len(heap[m.current].children) >= 1
  /\ Len(tbl) = Len(heap[m.current].children)


\* ------------------------------------------------------------------------
\* Scanner.scanDir called on the root while the program's handlers have
\* written the cache (SpecCached)
\* ------------------------------------------------------------------------
\* the program on LiveTree, as in SpecLive
InitCached == InitLive

\* scanDir(root) is called once the cache holds an entry for the root
scanDirCached == CacheHit(cache, Root) /\ scanDirCall

NextCached == Next \/ scanDirCached

SpecCached == InitCached /\ [][NextCached]_vars

\* the call of scanDir returns in this step
ScanDirReturns == scanPc = "idle" /\ scanPc' = "done"

\* n.Scanned is set, n.Children lists every immediate entry that is not
\* skipped, and no child carries the sentinel size
FullyAggregated(h, r) ==
  /\ h[r].scanned
  /\ PathsOf(h, h[r].children)
       = SortedSeq({ e \in ImmediateEntries(fsys, Root) : ~SkipEntry(fsys, e, followSymlinks) })
  /\ \A i \in 1..Len(h[r].children) : h[h[r].children[i]].size # Sentinel

\* C38: for a readable directory scanDir returns a fully aggregated node,
\* whatever the handlers of earlier sessions have stored in the cache for
\* that path
C38_ScanDirIgnoresPartialCache ==
  [][(ScanDirReturns /\ Root \notin fsys.unreadable) => FullyAggregated(heap', scanRet')]_vars


\* ------------------------------------------------------------------------
\* moveToTrash and the entries the holding area already has (SpecTrash)
\* ------------------------------------------------------------------------
\* a call of moveToTrash is made in this step
MoveCalled == now' = now + 1 /\ tlast'.op = "moveToTrash"

\* the trash paths of the items moved there by earlier calls
HeldPaths ==
  { trash.history[i].trashPath : i \in 1..Len(trash.history) } \cap DOMAIN disk

\* C39: a call of moveToTrash leaves every entry that is already in the
\* holding area as it was: neither the moved entry nor the sidecar file
\* (destination + ".meta.json") replaces a previously trashed entry
C39_TrashedEntriesKept ==
  [][MoveCalled => \A p \in HeldPaths : Present(disk', p) /\ disk'[p] = disk[p]]_vars


\* ------------------------------------------------------------------------
\* renderOverlay(base, popup, width, height).  A text is the sequence of its
\* lines (strings.Split(s, "\n")), a line the sequence of its runes; a rune
\* takes one terminal column, or two when it is a wide (East Asian) one.
\* ------------------------------------------------------------------------
\* a rune that takes two columns
Wide == "W"

\* the runes the base text and the popup text are made of
BaseRunes == { "a", Wide }
PopupRunes == { "p", Wide }

\* longest line, and number of lines, of the texts drawn
MaxBaseRunes == 4
MaxPopupRunes == 2
MaxTextLines == 2

\* largest width and height drawn
MaxWidth == 5
MaxHeight == 3

\* lipgloss.Width(s): the number of columns s takes
RECURSIVE Width(_)
Width(l) == IF l = << >> THEN 0 ELSE (IF Head(l) = Wide THEN 2 ELSE 1) + Width(Tail(l))

\* the width every rune is taken to have when rune indices are columns
RECURSIVE WidthInRunes(_)
WidthInRunes(l) == IF l = << >> THEN 0 ELSE 1 + WidthInRunes(Tail(l))

\* strings.Repeat(" ", n)
Spaces(n) == [i \in 1..n |-> " "]

minvalue(a, b) == IF a < b THEN a ELSE b

\* a / b of Go for b > 0: the quotient is truncated toward zero
GoDiv(a, b) == IF a >= 0 THEN a \div b ELSE -((-a) \div b)

\* the widest line of a text
WidestOf(lines) ==
  LET ws == { Width(lines[i]) : i \in 1..Len(lines) }
  IN  CHOOSE w \in ws \cup {0} : \A v \in ws \cup {0} : v <= w

\* lipgloss.Place(w, h, Left, Top, s): every line is padded on the right to
\* w columns when the widest line is narrower than w, and blank lines as wide
\* as the widest line are added below when s has fewer than h lines; nothing
\* is cut
Place(w, h, lines) ==
  LET cw == WidestOf(lines)
      horiz == IF w - cw <= 0 THEN lines
               ELSE [i \in 1..Len(lines) |-> lines[i] \o Spaces(w - Width(lines[i]))]
      hw == WidestOf(horiz)
  IN  IF h - Len(horiz) <= 0 THEN horiz
      ELSE horiz \o [i \in 1..(h - Len(horiz)) |-> Spaces(hw)]

\* the loop of truncateToWidth: runes are taken while the width fits
RECURSIVE truncateLoop(_, _, _)
truncateLoop(result, runes, maxWidth) ==
  IF runes = << >> THEN result
  ELSE IF Width(Append(result, Head(runes))) > maxWidth THEN result
  ELSE truncateLoop(Append(result, Head(runes)), Tail(runes), maxWidth)

truncateToWidth(s, maxWidth) ==
  IF Width(s) <= maxWidth THEN s ELSE truncateLoop(<< >>, s, maxWidth)

\* "ensure line is exactly the right width": pad, or truncate and pad
FitWidth(l, width) ==
  IF Width(l) < width THEN l \o Spaces(width - Width(l))
  ELSE IF Width(l) > width
    THEN LET t == truncateToWidth(l, width) IN t \o Spaces(width - Width(t))
  ELSE l

\* the popup line written over the runes of the background line, from rune
\* index startCol on
overlayLine(line, popupLine, width, startCol) ==
  LET bgRunes == IF Width(line) < width THEN line \o Spaces(width - Width(line)) ELSE line
      endCol == minvalue(Len(bgRunes), startCol + Len(popupLine))
      resultRunes == [k \in 1..Len(bgRunes) |->
                        IF k - 1 >= startCol /\ k - 1 < endCol
                          THEN popupLine[k - startCol] ELSE bgRunes[k]]
  IN  FitWidth(resultRunes, width)

\* startRow and startCol: "centered 0-based placement"
Centred(extent, pop) == IF extent > 0 THEN maxvalue(0, GoDiv(extent - pop, 2)) ELSE 0

renderOverlay(base, popup, width, height) ==
  LET bgLines == Place(maxvalue(1, width), maxvalue(1, height), base)
      popW == WidestOf(popup)
      popH == Len(popup)
      startRow == Centred(height, popH)
      startCol == Centred(width, popW)
      finalLines == [i \in 1..Len(bgLines) |->
                       IF i - 1 >= startRow /\ i - 1 < startRow + popH
                         THEN overlayLine(bgLines[i], popup[i - startRow], width, startCol)
                         ELSE FitWidth(bgLines[i], width)]
      filled == finalLines \o [k \in 1..(maxvalue(1, height) - Len(finalLines)) |->
                                 Spaces(maxvalue(1, width))]
  IN  SubSeq(filled, 1, maxvalue(1, height))

\* the lines of at most n runes over R
LinesOver(R, n) == UNION { [1..k -> R] : k \in 0..n }

\* the texts of at most MaxTextLines lines
TextsOver(R, n) == UNION { [1..k -> LinesOver(R, n)] : k \in 1..MaxTextLines }

InitOverlay ==
  /\ fsys = LiveTree
  /\ threads = TuiThreads
  /\ followSymlinks = FALSE
  /\ maxSess = 0 /\ chanCap = 0
  /\ ctxDone = FALSE
  /\ SumIdle /\ MemEmpty /\ ScanIdle /\ TuiIdle /\ TrashIdle
  /\ \E b \in TextsOver(BaseRunes, MaxBaseRunes) : \E p \in TextsOver(PopupRunes, MaxPopupRunes) :
       \E w \in 1..MaxWidth : \E h \in 1..MaxHeight :
         overlay = [pc |-> "call", base |-> b, width |-> w, popup |-> p, height |-> h]

\* out := renderOverlay(base, popup, width, height)
callRenderOverlay ==
  /\ overlay.pc = "call"
  /\ overlay' = [pc |-> "done",
                 out |-> renderOverlay(overlay.base, overlay.popup, overlay.width, overlay.height),
                 base |-> overlay.base, width |-> overlay.width,
                 popup |-> overlay.popup, height |-> overlay.height]
  /\ UNCHANGED << envVars, sumVars, memVars, scanVars, tuiVars, trashVars >>

NextOverlay == callRenderOverlay

SpecOverlay == InitOverlay /\ [][NextOverlay]_vars

\* the columns of a line: a wide rune fills its column and the next one
Cont == "cont"

RECURSIVE Cells(_)
Cells(l) ==
  IF l = << >> THEN << >>
  ELSE (IF Head(l) = Wide THEN << Wide, Cont >> ELSE << Head(l) >>) \o Cells(Tail(l))

\* line i (from 1) of the base text on a surface of the given height
BaseLine(i) == IF i <= Len(overlay.base) THEN overlay.base[i] ELSE << >>

\* the rows the centred popup covers, from 1
PopupRows ==
  LET startRow == Centred(overlay.height, Len(overlay.popup))
  IN  { i \in 1..overlay.height : i - 1 >= startRow /\ i - 1 < startRow + Len(overlay.popup) }

\* every line returned is exactly width columns wide
ExactGrid ==
  /\ Len(overlay.out) = overlay.height
  /\ \A i \in 1..Len(overlay.out) : Width(overlay.out[i]) = overlay.width

\* outside the popup's rows a line is the background line, padded or cut
BackgroundKept ==
  \A i \in (1..overlay.height) \ PopupRows :
    overlay.out[i] = FitWidth(BaseLine(i), overlay.width)

\* inside them, columns [startCol, startCol + width of the popup line) show
\* the popup line and every other column shows the background
PopupAtColumns ==
  LET startCol == Centred(overlay.width, WidestOf(overlay.popup))
      startRow == Centred(overlay.height, Len(overlay.popup))
  IN  \A i \in PopupRows :
        LET B == Cells(FitWidth(BaseLine(i), overlay.width))
            P == Cells(overlay.popup[i - startRow])
            O == Cells(overlay.out[i])
        IN  \A c \in 1..overlay.width :
              IF c - 1 >= startCol /\ c - 1 < startCol + Len(P)
                THEN O[c] = P[c - startCol]
                ELSE O[c] = B[c]

\* C40: for width, height >= 1 renderOverlay returns exactly height lines of
\* exactly width columns; the lines outside the popup's centred rows are the
\* background lines, and the lines inside show the popup at columns
\* [startCol, startCol + popup width) with the background kept on both sides
C40_OverlayIsColumnExact ==
  overlay.pc = "done" => (ExactGrid /\ BackgroundKept /\ PopupAtColumns)

====
